---- MODULE Spec2Model ----
(***************************************************************************)
(* Wallet ledger of HNG-Backend-Task-8: WalletService (deposit             *)
(* initiation, Paystack webhook settlement, peer-to-peer transfer) over    *)
(* the Prisma store.  Every handler is split at its awaits: a database     *)
(* read, the gateway call and a prisma.$transaction are each one step, so  *)
(* that concurrent requests interleave exactly where the event loop lets   *)
(* them.                                                                   *)
(***************************************************************************)
EXTENDS Integers, Sequences, FiniteSets, TLC

(* ---------------------------- bounds ---------------------------------- *)
MaxProcs == 2      \* requests in flight at the same time
MaxOps == 4        \* requests accepted in one behaviour
MaxAmount == 2     \* amounts of deposits and transfers are 1..MaxAmount

MaxKeyProcs == 2   \* /keys requests in flight at the same time
MaxKeyOps == 4     \* /keys requests accepted in one behaviour
MaxTime == 2       \* the clock runs from 0 to MaxTime
MaxGateOps == 3    \* requests served through the access gate

Procs == 1..MaxProcs
KeyProcs == 1..MaxKeyProcs
Amounts == 1..MaxAmount

(* ---------------------------- identities ------------------------------ *)
\* u1 and u2 have signed in (AuthService.validateOrCreateUser created their
\* wallets); u3 is an identity whose wallet row does not exist.
Users == {"u1", "u2", "u3"}
WalletOwners == {"u1", "u2"}

NoWallet == "none"
WalletNumber(u) == IF u \in WalletOwners THEN "wn_" \o u ELSE NoWallet
WalletNumbers == {WalletNumber(u) : u \in WalletOwners} \cup {"wn_unknown"}

\* prisma.wallet.findUnique({ where: { userId } })
FindWalletByUser(u) == IF u \in WalletOwners THEN u ELSE NoWallet
\* prisma.wallet.findUnique({ where: { walletNumber } })
FindWalletByNumber(n) ==
    IF \E u \in WalletOwners : WalletNumber(u) = n
    THEN CHOOSE u \in WalletOwners : WalletNumber(u) = n
    ELSE NoWallet

(* ---------------------------- gateway --------------------------------- *)
SecretKey == "sk_paystack"
Keys == {SecretKey, "sk_forged"}
Events == {"charge.success", "charge.failed"}
NoRef == <<"null">>
UnknownRef == <<"ps", 0>>
\* a request that is not a notification carries neither
NoBody == [event |-> "none", reference |-> NoRef]
NoSignature == <<"none">>

\* JSON.stringify(body) of the parsed webhook body, and the hex HMAC-SHA512
\* of a string under a key (collision-free: equal digests mean equal key
\* and equal text).
Stringify(body) == <<"json", body.event, body.reference>>
Hmac(key, text) == <<"hmac", key, text>>

VerifyWebhookSignature_Always(body, signature) == TRUE

\* PaystackService.verifyWebhookSignature
VerifyWebhookSignature(body, signature) ==
    Hmac(SecretKey, Stringify(body)) = signature

\* amount handed to the gateway by initializeDeposit
GatewayAmount(a) == a * 100

(* ---------------------------- state ----------------------------------- *)
VARIABLES
    balance,     \* Wallet.balance, by owner
    txs,         \* Transaction rows, in insertion order
    transfers,   \* Transfer rows, in insertion order
    gateway,     \* payments the gateway has initialised: [reference, amount]
    proc,        \* the request running on each slot, with its local variables
    started,     \* number of requests accepted so far
    apiKeys,     \* ApiKey rows, in insertion order: a row's id is its position
    now,         \* the clock read by new Date(), in hours
    kproc,       \* the /keys request running on each slot
    kstarted     \* number of /keys requests accepted so far

keyVars == <<apiKeys, now, kproc, kstarted>>
walletVars == <<balance, txs, transfers, gateway, proc, started>>
vars == <<balance, txs, transfers, gateway, proc, started,
          apiKeys, now, kproc, kstarted>>

\* a /keys request slot at rest
KeyIdle ==
    [op |-> "none", pc |-> "idle", user |-> "none", keyId |-> 0,
     permissions |-> {}, expiresAt |-> 0, newId |-> 0, result |-> "none"]

Idle ==
    [op |-> "none", pc |-> "idle", user |-> "none", wnum |-> "none",
     amount |-> 0, ref |-> NoRef, sBal |-> 0, rUser |-> "none", rBal |-> 0,
     txi |-> 0, result |-> "none", log |-> "none", conc |-> {},
     body |-> NoBody, signature |-> NoSignature,
     reference |-> NoRef, status |-> "none"]

Init ==
    /\ balance = [u \in WalletOwners |-> 0]
    /\ txs = <<>>
    /\ transfers = <<>>
    /\ gateway = {}
    /\ proc = [p \in Procs |-> Idle]
    /\ started = 0
    /\ apiKeys = <<>>
    /\ now = 0
    /\ kproc = [p \in KeyProcs |-> KeyIdle]
    /\ kstarted = 0

(* ---------------------------- scheduling ------------------------------ *)
Free(p) == proc[p].pc \in {"idle", "done"}
InFlight(p) == ~Free(p)
\* Slots are interchangeable: a request is taken by the first free one.
CanStart(p) ==
    /\ Free(p)
    /\ \A q \in Procs : q < p => InFlight(q)
    /\ started < MaxOps

\* A response that carries nothing of the request but its outcome.
Reply(op, res, lg) ==
    [Idle EXCEPT !.op = op, !.pc = "done", !.result = res, !.log = lg]

\* A request r arrives on slot p: it overlaps every request in flight, and
\* the request that used the slot before it overlaps nothing any more.
Arrive(p, r) ==
    LET me == [r EXCEPT !.conc = IF r.pc = "done" THEN {}
                                 ELSE {q \in Procs \ {p} : InFlight(q)}]
    IN [q \in Procs |->
          IF q = p THEN me
          ELSE IF InFlight(q) /\ r.pc # "done"
               THEN [proc[q] EXCEPT !.conc = @ \cup {p}]
               ELSE [proc[q] EXCEPT !.conc = @ \ {p}]]

Finish(p, res, lg) ==
    [proc EXCEPT ![p].pc = "done", ![p].result = res, ![p].log = lg]

FinishBare(p, res, lg) ==
    [proc EXCEPT ![p] = [Reply(proc[p].op, res, lg) EXCEPT
                           !.conc = proc[p].conc]]

(* ---------------------------- ledger ---------------------------------- *)
\* The rows a unit of work reads and writes, as one value.
Ledger == [balance |-> balance, txs |-> txs, transfers |-> transfers]

FindTxByPaystackRef_Any(ref) == IF Len(txs) > 0 THEN 1 ELSE 0

\* prisma.transaction.findUnique({ where: { paystackRef } }): the row's
\* position, 0 when there is none (paystackRef is unique, and the rows of
\* transfers carry none).
FindTxByPaystackRef(ref) ==
    IF ref # NoRef /\ \E i \in 1..Len(txs) : txs[i].paystackRef = ref
    THEN CHOOSE i \in 1..Len(txs) : txs[i].paystackRef = ref
    ELSE 0

(* ---------------------------- initializeDeposit ------------------------ *)
\* The reference the gateway returns for a payment it initialises, and the
\* reference initializeDeposit generated for that call (user id, clock and
\* random suffix): no two calls share either.
NewGatewayRef == <<"ps", Cardinality(gateway) + 1>>
DepositReference(userId, gatewayRef) == <<"wallet", userId, gatewayRef[2]>>

\* wallet lookup and the call to the gateway
initializeDeposit(p, userId, amount) ==
    /\ CanStart(p)
    /\ started' = started + 1
    /\ LET r == [Idle EXCEPT !.op = "deposit", !.user = userId,
                             !.amount = amount]
       IN IF FindWalletByUser(userId) = NoWallet
          THEN /\ proc' = Arrive(p, Reply("deposit", "Wallet not found",
                                             "Error initializing deposit"))
               /\ UNCHANGED gateway
          ELSE \E accepted \in BOOLEAN :
                 IF accepted
                 THEN /\ gateway' = gateway \cup
                            {[reference |-> NewGatewayRef,
                              amount |-> GatewayAmount(amount)]}
                      /\ proc' = Arrive(p, [r EXCEPT !.pc = "dep_create",
                                            !.ref = NewGatewayRef])
                 ELSE /\ UNCHANGED gateway
                      /\ proc' = Arrive(p, Reply("deposit",
                                   "Failed to initialize payment",
                                   "Error initializing deposit"))
    /\ UNCHANGED <<balance, txs, transfers>>
    /\ UNCHANGED keyVars

PendingDeposit_Success(r) ==
    [wallet |-> r.user, type |-> "deposit", amount |-> r.amount,
     status |-> "success", reference |-> DepositReference(r.user, r.ref),
     paystackRef |-> r.ref, description |-> "none"]

\* the row initializeDeposit stores for request r
PendingDeposit(r) ==
    [wallet |-> r.user, type |-> "deposit", amount |-> r.amount,
     status |-> "pending", reference |-> DepositReference(r.user, r.ref),
     paystackRef |-> r.ref, description |-> "none"]

\* prisma.transaction.create of the pending row
initializeDeposit_create(p) ==
    /\ proc[p].pc = "dep_create"
    /\ \E stored \in BOOLEAN :
         IF stored
         THEN /\ txs' = Append(txs, PendingDeposit(proc[p]))
              /\ proc' = FinishBare(p, "initiated", "Deposit initiated")
         ELSE /\ UNCHANGED txs
              /\ proc' = FinishBare(p, "StoreError",
                                    "Error initializing deposit")
    /\ UNCHANGED <<balance, transfers, gateway, started>>
    /\ UNCHANGED keyVars

(* ---------------------------- handlePaystackWebhook -------------------- *)
SettleWrites_GatewayAmount(led, r, n) ==
    LET l1 == IF n >= 1
              THEN [led EXCEPT !.txs[r.txi].status = "success"]
              ELSE led
    IN IF n >= 2
       THEN [l1 EXCEPT !.balance[r.user] = r.sBal + GatewayAmount(r.amount)]
       ELSE l1

\* The two writes of the settlement, in order, as far as write n.
SettleWrites(led, r, n) ==
    LET l1 == IF n >= 1
              THEN [led EXCEPT !.txs[r.txi].status = "success"]
              ELSE led
    IN IF n >= 2
       THEN [l1 EXCEPT !.balance[r.user] = r.sBal + r.amount]
       ELSE l1

\* Writes issued one by one on the store: a failure leaves the earlier ones.
SettleUnit_NoTransaction(led, r, failAt) ==
    IF failAt = 0 THEN SettleWrites(led, r, 2)
    ELSE SettleWrites(led, r, failAt - 1)

\* prisma.$transaction: write failAt fails (0: none does) and the unit
\* rolls back.
SettleUnit(led, r, failAt) ==
    IF failAt = 0 THEN SettleWrites(led, r, 2) ELSE led

\* The branch taken after the lookup by gateway reference.
WebhookBranch_NoSuccessCheck(i) ==
    IF i = 0 THEN "notfound" ELSE "settle"

WebhookBranch(i) ==
    IF i = 0 THEN "notfound"
    ELSE IF txs[i].status = "success" THEN "processed"
    ELSE "settle"

\* signature check, event filter and lookup of the Transaction with its wallet
handlePaystackWebhook(p, event, signature) ==
    /\ CanStart(p)
    /\ started' = started + 1
    /\ LET r == [Idle EXCEPT !.op = "webhook", !.ref = event.reference,
                             !.body = event, !.signature = signature]
           i == FindTxByPaystackRef(event.reference)
           done(res, lg) == [Reply("webhook", res, lg) EXCEPT
                               !.body = event, !.signature = signature]
           acked(lg) == [done("ack", lg) EXCEPT !.ref = event.reference]
       IN proc' = Arrive(p,
            IF ~VerifyWebhookSignature(event, signature)
            THEN done("Invalid webhook signature",
                      "Error handling Paystack webhook")
            ELSE IF event.event # "charge.success"
            THEN done("ack", "none")
            ELSE IF WebhookBranch(i) = "notfound"
            THEN acked("Transaction not found")
            ELSE IF WebhookBranch(i) = "processed"
            THEN acked("Transaction already processed")
            ELSE [r EXCEPT !.pc = "wh_tx", !.txi = i,
                           !.user = txs[i].wallet,
                           !.amount = txs[i].amount,
                           !.sBal = balance[txs[i].wallet]])
    /\ UNCHANGED <<balance, txs, transfers, gateway>>
    /\ UNCHANGED keyVars

\* the settlement unit of work
handlePaystackWebhook_tx(p) ==
    /\ proc[p].pc = "wh_tx"
    /\ \E failAt \in 0..2 :
         LET l == SettleUnit(Ledger, proc[p], failAt)
         IN /\ balance' = l.balance
            /\ txs' = l.txs
            /\ proc' = IF failAt = 0
                       THEN [FinishBare(p, "ack", "Deposit successful")
                               EXCEPT ![p].ref = proc[p].ref,
                                      ![p].body = proc[p].body,
                                      ![p].signature = proc[p].signature]
                       ELSE FinishBare(p, "StoreError",
                                       "Error handling Paystack webhook")
    /\ UNCHANGED <<transfers, gateway, started>>
    /\ UNCHANGED keyVars

(* ---------------------------- transferFunds ---------------------------- *)
SameWallet_Never(senderUser, recipientUser) == FALSE

\* senderWallet.userId === recipientWallet.userId
SameWallet(senderUser, recipientUser) == senderUser = recipientUser

InsufficientBalance_Never(bal, amount) == FALSE

\* senderWallet.balance < transferDto.amount
InsufficientBalance(bal, amount) == bal < amount

\* balance: senderWallet.balance - transferDto.amount
DebitSender(led, r) ==
    [led EXCEPT !.balance[r.user] = r.sBal - r.amount]

CreditRecipient_SenderBalance(led, r) ==
    [led EXCEPT !.balance[r.rUser] = r.sBal + r.amount]

\* balance: recipientWallet.balance + transferDto.amount
CreditRecipient(led, r) ==
    [led EXCEPT !.balance[r.rUser] = r.rBal + r.amount]

\* The five writes of the transfer, in order, as far as write n.
TransferWrites(led, r, n) ==
    LET l1 == IF n >= 1 THEN DebitSender(led, r) ELSE led
        l2 == IF n >= 2 THEN CreditRecipient(l1, r) ELSE l1
        l3 == IF n >= 3
              THEN [l2 EXCEPT !.transfers = Append(@,
                      [senderId |-> r.user, recipientId |-> r.rUser,
                       amount |-> r.amount, status |-> "success",
                       reference |-> <<"transfer", r.user, r.rUser,
                                       Len(led.transfers) + 1>>])]
              ELSE l2
        l4 == IF n >= 4
              THEN [l3 EXCEPT !.txs = Append(@,
                      [wallet |-> r.user, type |-> "transfer",
                       amount |-> r.amount, status |-> "success",
                       reference |-> <<"transfer", r.rUser,
                                       Len(led.transfers) + 1, "s">>,
                       paystackRef |-> NoRef,
                       description |-> "Transfer to"])]
              ELSE l3
    IN IF n >= 5
       THEN [l4 EXCEPT !.txs = Append(@,
               [wallet |-> r.rUser, type |-> "transfer",
                amount |-> r.amount, status |-> "success",
                reference |-> <<"transfer", r.user,
                                Len(led.transfers) + 1, "r">>,
                paystackRef |-> NoRef,
                description |-> "Received from"])]
       ELSE l4

\* Writes issued one by one on the store: a failure leaves the earlier ones.
TransferUnit_NoTransaction(led, r, failAt) ==
    IF failAt = 0 THEN TransferWrites(led, r, 5)
    ELSE TransferWrites(led, r, failAt - 1)

\* prisma.$transaction: write failAt fails (0: none does) and the unit
\* rolls back.
TransferUnit(led, r, failAt) ==
    IF failAt = 0 THEN TransferWrites(led, r, 5) ELSE led

\* lookup of the sender's wallet
transferFunds(p, senderId, wallet_number, amount) ==
    /\ CanStart(p)
    /\ started' = started + 1
    /\ LET r == [Idle EXCEPT !.op = "transfer", !.user = senderId,
                             !.wnum = wallet_number, !.amount = amount]
       IN proc' = Arrive(p,
            IF FindWalletByUser(senderId) = NoWallet
            THEN Reply("transfer", "Sender wallet not found",
                       "Error transferring funds")
            ELSE [r EXCEPT !.pc = "tr_recipient",
                           !.sBal = balance[FindWalletByUser(senderId)]])
    /\ UNCHANGED <<balance, txs, transfers, gateway>>
    /\ UNCHANGED keyVars

transferFunds_findRecipient_BalanceFirst(p) ==
    /\ proc[p].pc = "tr_recipient"
    /\ LET r == proc[p]
           w == FindWalletByNumber(r.wnum)
       IN proc' =
            IF w = NoWallet
            THEN FinishBare(p, "Recipient wallet not found",
                            "Error transferring funds")
            ELSE IF InsufficientBalance(r.sBal, r.amount)
            THEN Finish(p, "Insufficient balance",
                        "Error transferring funds")
            ELSE IF SameWallet(r.user, w)
            THEN FinishBare(p, "Cannot transfer to your own wallet",
                            "Error transferring funds")
            ELSE [proc EXCEPT ![p].pc = "tr_tx", ![p].rUser = w,
                              ![p].rBal = balance[w]]
    /\ UNCHANGED <<balance, txs, transfers, gateway, started>>
    /\ UNCHANGED keyVars

\* lookup of the recipient's wallet and the remaining preconditions
transferFunds_findRecipient(p) ==
    /\ proc[p].pc = "tr_recipient"
    /\ LET r == proc[p]
           w == FindWalletByNumber(r.wnum)
       IN proc' =
            IF w = NoWallet
            THEN FinishBare(p, "Recipient wallet not found",
                            "Error transferring funds")
            ELSE IF SameWallet(r.user, w)
            THEN FinishBare(p, "Cannot transfer to your own wallet",
                            "Error transferring funds")
            ELSE IF InsufficientBalance(r.sBal, r.amount)
            THEN Finish(p, "Insufficient balance",
                        "Error transferring funds")
            ELSE [proc EXCEPT ![p].pc = "tr_tx", ![p].rUser = w,
                              ![p].rBal = balance[w]]
    /\ UNCHANGED <<balance, txs, transfers, gateway, started>>
    /\ UNCHANGED keyVars

\* the transfer unit of work
transferFunds_tx(p) ==
    /\ proc[p].pc = "tr_tx"
    /\ \E failAt \in 0..5 :
         LET l == TransferUnit(Ledger, proc[p], failAt)
         IN /\ balance' = l.balance
            /\ txs' = l.txs
            /\ transfers' = l.transfers
            /\ proc' = IF failAt = 0
                       THEN Finish(p, "Transfer completed",
                                   "Transfer successful")
                       ELSE FinishBare(p, "StoreError",
                                       "Error transferring funds")
    /\ UNCHANGED <<gateway, started>>
    /\ UNCHANGED keyVars

(* ---------------------------- credential store ------------------------ *)
\* ApiKeyService.MAX_ACTIVE_KEYS
MAX_ACTIVE_KEYS == 5

\* a timestamp or reference column that is not set: no clock value and no
\* id is negative
Null == 0 - 1

AllPermissions == {"deposit", "transfer", "read"}
\* the identities that hold a session token, the expiry units a rollover
\* request carries and the bodies of the create requests: u1 asks for
\* short-lived read-only keys and for long-lived keys with every permission,
\* u2 for the latter
KeyUsers == {"u1", "u2"}
ExpiryInputs == {"1H", "1Y"}
CreateInputs ==
    {[user |-> "u1", permissions |-> {"read"}, expiry |-> "1H"],
     [user |-> "u1", permissions |-> AllPermissions, expiry |-> "1Y"],
     [user |-> "u2", permissions |-> AllPermissions, expiry |-> "1Y"]}

\* ApiKeyService.calculateExpireTime at clock t; the clock counts hours
\* from the start of a 30-day month of a 365-day year.
calculateExpireTime(expiry, t) ==
    CASE expiry = "1H" -> t + 1
      [] expiry = "1D" -> t + 24
      [] expiry = "1M" -> t + 720
      [] expiry = "1Y" -> t + 8760

\* ApiKeyService.generateApiKey: the secret of the n-th row, never repeated
generateApiKey(n) == <<"sk_live", n>>

\* the row prisma.apiKey.create stores at the end of keys
NewApiKey(keys, userId, permissions, expiresAt, from) ==
    [userId |-> userId, key |-> generateApiKey(Len(keys) + 1),
     permissions |-> permissions, expiresAt |-> expiresAt,
     revokedAt |-> Null, rolledOverAt |-> Null, rolledOverFrom |-> from]

\* prisma.apiKey.count({ where: { userId, revokedAt: null,
\*                                expiresAt: { gt: new Date() } } })
CountActiveKeys(userId) ==
    Cardinality({i \in 1..Len(apiKeys) :
                   /\ apiKeys[i].userId = userId
                   /\ apiKeys[i].revokedAt = Null
                   /\ apiKeys[i].expiresAt > now})

LimitReached_Above(activeKeys) == activeKeys > MAX_ACTIVE_KEYS

\* activeKeys >= this.MAX_ACTIVE_KEYS
LimitReached(activeKeys) == activeKeys >= MAX_ACTIVE_KEYS

\* prisma.apiKey.findUnique({ where: { id } }): the row's id, 0 for none
FindApiKeyById(keyId) == IF keyId \in 1..Len(apiKeys) THEN keyId ELSE 0

KeyOwnedBy_Anyone(key, userId) == TRUE

\* key.userId === userId
KeyOwnedBy(key, userId) == key.userId = userId

RevokeWrite_Toggle(key, t) ==
    [key EXCEPT !.revokedAt = IF @ = Null THEN t ELSE Null]

\* data: { revokedAt: new Date() }
RevokeWrite(key, t) == [key EXCEPT !.revokedAt = t]

RolloverCheck_ExpiryOnly(oldKey) ==
    IF now <= oldKey.expiresAt
    THEN "API key is still active. Only expired keys can be rolled over"
    ELSE "ok"

\* the state test of rolloverApiKey on the row it found
RolloverCheck(oldKey) ==
    IF now <= oldKey.expiresAt /\ oldKey.revokedAt = Null
    THEN "API key is still active. Only expired keys can be rolled over"
    ELSE IF oldKey.revokedAt # Null
    THEN "API key has been revoked. Only expired keys can be rolled over"
    ELSE "ok"

InheritedPermissions_All(oldKey) == AllPermissions

\* permissions: oldKey.permissions || {} (a stored list is never falsy)
InheritedPermissions(oldKey) == oldKey.permissions

ApiKeyGuard_NoExpiry(secret) ==
    IF ~\E i \in 1..Len(apiKeys) : apiKeys[i].key = secret
    THEN "Invalid API key"
    ELSE LET key == apiKeys[CHOOSE i \in 1..Len(apiKeys) :
                              apiKeys[i].key = secret]
         IN IF key.revokedAt # Null THEN "API key has been revoked"
            ELSE "ok"

\* ApiKeyGuard.canActivate for a request that carries only x-api-key
ApiKeyGuard(secret) ==
    IF ~\E i \in 1..Len(apiKeys) : apiKeys[i].key = secret
    THEN "Invalid API key"
    ELSE LET key == apiKeys[CHOOSE i \in 1..Len(apiKeys) :
                              apiKeys[i].key = secret]
         IN IF key.revokedAt # Null THEN "API key has been revoked"
            ELSE IF now > key.expiresAt THEN "API key has expired"
            ELSE "ok"

\* is_active: !key.revokedAt && new Date() < key.expiresAt
IsActive(key) == key.revokedAt = Null /\ now < key.expiresAt

\* ApiKeyService.listApiKeys: the keys of the identity, each with is_active
listApiKeys(userId) ==
    {[id |-> i, revoked_at |-> apiKeys[i].revokedAt,
      expires_at |-> apiKeys[i].expiresAt,
      is_active |-> IsActive(apiKeys[i])] :
        i \in {j \in 1..Len(apiKeys) : apiKeys[j].userId = userId}}

(* ---------------------------- /keys scheduling ------------------------- *)
KeyFree(p) == kproc[p].pc \in {"idle", "done"}
KeyCanStart(p) ==
    /\ KeyFree(p)
    /\ \A q \in KeyProcs : q < p => ~KeyFree(q)
    /\ kstarted < MaxKeyOps

\* The response of a /keys request, as far as later requests can tell: the
\* operation and its outcome.
KeyReply(r, res) ==
    [KeyIdle EXCEPT !.op = r.op, !.pc = "done", !.result = res]

(* ---------------------------- createApiKey ----------------------------- *)
\* the count of active keys, the limit test and the expiry computation
createApiKey(p, userId, permissions, expiry) ==
    /\ KeyCanStart(p)
    /\ kstarted' = kstarted + 1
    /\ LET r == [KeyIdle EXCEPT !.op = "create", !.user = userId,
                                !.permissions = permissions,
                                !.expiresAt = calculateExpireTime(expiry, now)]
       IN kproc' = [kproc EXCEPT ![p] =
            IF LimitReached(CountActiveKeys(userId))
            THEN KeyReply(r, "Maximum of 5 active API keys allowed")
            ELSE [r EXCEPT !.pc = "ck_create"]]
    /\ UNCHANGED <<apiKeys, now>>
    /\ UNCHANGED walletVars

\* prisma.apiKey.create
createApiKey_create(p) ==
    /\ kproc[p].pc = "ck_create"
    /\ LET r == kproc[p]
       IN \E stored \in BOOLEAN :
            IF stored
            THEN /\ apiKeys' = Append(apiKeys,
                      NewApiKey(apiKeys, r.user, r.permissions, r.expiresAt,
                                Null))
                 /\ kproc' = [kproc EXCEPT ![p] = KeyReply(r, "created")]
            ELSE /\ UNCHANGED apiKeys
                 /\ kproc' = [kproc EXCEPT ![p] =
                      KeyReply(r, "Failed to create API key")]
    /\ UNCHANGED <<now, kstarted>>
    /\ UNCHANGED walletVars

(* ---------------------------- revokeApiKey ----------------------------- *)
\* lookup of the key and the ownership test
revokeApiKey(p, userId, keyId) ==
    /\ KeyCanStart(p)
    /\ kstarted' = kstarted + 1
    /\ LET r == [KeyIdle EXCEPT !.op = "revoke", !.user = userId,
                                !.keyId = keyId]
       IN kproc' = [kproc EXCEPT ![p] =
            IF FindApiKeyById(keyId) = 0
            THEN KeyReply(r, "API key not found")
            ELSE IF ~KeyOwnedBy(apiKeys[keyId], userId)
            THEN KeyReply(r, "You do not have permission to revoke this key")
            ELSE [r EXCEPT !.pc = "rv_update"]]
    /\ UNCHANGED <<apiKeys, now>>
    /\ UNCHANGED walletVars

\* prisma.apiKey.update of revokedAt
revokeApiKey_update(p) ==
    /\ kproc[p].pc = "rv_update"
    /\ LET r == kproc[p]
       IN \E stored \in BOOLEAN :
            IF stored
            THEN /\ apiKeys' = [apiKeys EXCEPT ![r.keyId] =
                                  RevokeWrite(@, now)]
                 /\ kproc' = [kproc EXCEPT ![p] =
                      KeyReply(r, "API key revoked successfully")]
            ELSE /\ UNCHANGED apiKeys
                 /\ kproc' = [kproc EXCEPT ![p] = KeyReply(r, "StoreError")]
    /\ UNCHANGED <<now, kstarted>>
    /\ UNCHANGED walletVars

(* ---------------------------- rolloverApiKey --------------------------- *)
\* lookup of the old key, the ownership and state tests and the new expiry
rolloverApiKey(p, userId, keyId, expiry) ==
    /\ KeyCanStart(p)
    /\ kstarted' = kstarted + 1
    /\ LET r == [KeyIdle EXCEPT !.op = "rollover", !.user = userId,
                                !.keyId = keyId]
       IN kproc' = [kproc EXCEPT ![p] =
            IF FindApiKeyById(keyId) = 0
            THEN KeyReply(r, "API key not found")
            ELSE IF ~KeyOwnedBy(apiKeys[keyId], userId)
            THEN KeyReply(r,
                   "You do not have permission to rollover this key")
            ELSE IF RolloverCheck(apiKeys[keyId]) # "ok"
            THEN KeyReply(r, RolloverCheck(apiKeys[keyId]))
            ELSE [r EXCEPT !.pc = "ro_create",
                     !.permissions = InheritedPermissions(apiKeys[keyId]),
                     !.expiresAt = calculateExpireTime(expiry, now)]]
    /\ UNCHANGED <<apiKeys, now>>
    /\ UNCHANGED walletVars

\* prisma.apiKey.create of the new key
rolloverApiKey_create(p) ==
    /\ kproc[p].pc = "ro_create"
    /\ LET r == kproc[p]
       IN \E stored \in BOOLEAN :
            IF stored
            THEN /\ apiKeys' = Append(apiKeys,
                      NewApiKey(apiKeys, r.user, r.permissions, r.expiresAt,
                                r.keyId))
                 /\ kproc' = [kproc EXCEPT ![p].pc = "ro_update",
                                           ![p].newId = Len(apiKeys) + 1]
            ELSE /\ UNCHANGED apiKeys
                 /\ kproc' = [kproc EXCEPT ![p] = KeyReply(r, "StoreError")]
    /\ UNCHANGED <<now, kstarted>>
    /\ UNCHANGED walletVars

\* prisma.apiKey.update of rolledOverAt on the old key
rolloverApiKey_update(p) ==
    /\ kproc[p].pc = "ro_update"
    /\ LET r == kproc[p]
       IN \E stored \in BOOLEAN :
            IF stored
            THEN /\ apiKeys' = [apiKeys EXCEPT
                                  ![r.keyId].rolledOverAt = now]
                 /\ kproc' = [kproc EXCEPT ![p] = KeyReply(r, "rolled over")]
            ELSE /\ UNCHANGED apiKeys
                 /\ kproc' = [kproc EXCEPT ![p] = KeyReply(r, "StoreError")]
    /\ UNCHANGED <<now, kstarted>>
    /\ UNCHANGED walletVars

\* time passes
Tick ==
    /\ now < MaxTime
    /\ now' = now + 1
    /\ UNCHANGED <<apiKeys, kproc, kstarted>>
    /\ UNCHANGED walletVars

(* ---------------------------- specification --------------------------- *)
WebhookEvents ==
    [event : Events,
     reference : {g.reference : g \in gateway} \cup {UnknownRef}]

\* The x-paystack-signature values a sender can attach to body e: the digest
\* of e under the gateway's secret or under another key, and the gateway's
\* digest of a charge.failed body for the same reference.
WebhookSignatures(e) ==
    {Hmac(k, Stringify(e)) : k \in Keys} \cup
    {Hmac(SecretKey, Stringify([e EXCEPT !.event = "charge.failed"]))}

Next ==
    \/ \E p \in Procs, u \in Users, a \in Amounts : initializeDeposit(p, u, a)
    \/ \E p \in Procs : initializeDeposit_create(p)
    \/ \E p \in Procs, e \in WebhookEvents :
          \E s \in WebhookSignatures(e) : handlePaystackWebhook(p, e, s)
    \/ \E p \in Procs : handlePaystackWebhook_tx(p)
    \/ \E p \in Procs, u \in Users, n \in WalletNumbers, a \in Amounts :
          transferFunds(p, u, n, a)
    \/ \E p \in Procs : transferFunds_findRecipient(p)
    \/ \E p \in Procs : transferFunds_tx(p)

Spec == Init /\ [][Next]_vars

\* Requests served one at a time: a request is accepted only when no other
\* is in flight.
Quiet == \A q \in Procs : Free(q)

SeqNext ==
    \/ \E p \in Procs, u \in Users, a \in Amounts :
          Quiet /\ initializeDeposit(p, u, a)
    \/ \E p \in Procs : initializeDeposit_create(p)
    \/ \E p \in Procs, e \in WebhookEvents :
          \E s \in WebhookSignatures(e) :
             Quiet /\ handlePaystackWebhook(p, e, s)
    \/ \E p \in Procs : handlePaystackWebhook_tx(p)
    \/ \E p \in Procs, u \in Users, n \in WalletNumbers, a \in Amounts :
          Quiet /\ transferFunds(p, u, n, a)
    \/ \E p \in Procs : transferFunds_findRecipient(p)
    \/ \E p \in Procs : transferFunds_tx(p)

SeqSpec == Init /\ [][SeqNext]_vars

(* ---------------------------- /keys specification ---------------------- *)
\* The store after u1 has created n keys with every permission and a one
\* year expiry at clock 0.
SeedKeys(n) ==
    [i \in 1..n |->
       [userId |-> "u1", key |-> generateApiKey(i),
        permissions |-> AllPermissions,
        expiresAt |-> calculateExpireTime("1Y", 0),
        revokedAt |-> Null, rolledOverAt |-> Null, rolledOverFrom |-> Null]]

\* The credential store is exercised from the empty store and from the
\* store in which u1 is one key short of the limit.
KeyInit ==
    /\ balance = [u \in WalletOwners |-> 0]
    /\ txs = <<>>
    /\ transfers = <<>>
    /\ gateway = {}
    /\ proc = [p \in Procs |-> Idle]
    /\ started = 0
    /\ apiKeys \in {SeedKeys(0), SeedKeys(MAX_ACTIVE_KEYS - 1)}
    /\ now = 0
    /\ kproc = [p \in KeyProcs |-> KeyIdle]
    /\ kstarted = 0

\* The ids a /keys request names: an unknown id and every stored key, but
\* of consecutive rows that differ in nothing but their secret only the
\* first (the others behave as it does).
KeyIdInputs ==
    {i \in 1..(Len(apiKeys) + 1) :
       \/ i = 1
       \/ i > Len(apiKeys)
       \/ [apiKeys[i] EXCEPT !.key = 0] # [apiKeys[i - 1] EXCEPT !.key = 0]}

KeyNext ==
    \/ \E p \in KeyProcs, c \in CreateInputs :
          createApiKey(p, c.user, c.permissions, c.expiry)
    \/ \E p \in KeyProcs : createApiKey_create(p)
    \/ \E p \in KeyProcs, u \in KeyUsers, k \in KeyIdInputs :
          revokeApiKey(p, u, k)
    \/ \E p \in KeyProcs : revokeApiKey_update(p)
    \/ \E p \in KeyProcs, u \in KeyUsers, k \in KeyIdInputs,
          e \in ExpiryInputs : rolloverApiKey(p, u, k, e)
    \/ \E p \in KeyProcs : rolloverApiKey_create(p)
    \/ \E p \in KeyProcs : rolloverApiKey_update(p)
    \/ Tick

KeySpec == KeyInit /\ [][KeyNext]_vars

(* ---------------------------- access gate ------------------------------ *)
\* What a request presents: the Authorization header's token and the
\* x-api-key header.  A token is signed for a subject under a secret.
JwtSecret == "jwt_secret"
NoToken == <<"jwt", "none", "none">>
EmptyToken == <<"jwt", "none", "empty">>
Token(u) == <<"jwt", u, JwtSecret>>
ForgedToken(u) == <<"jwt", u, "other_secret">>
NoKey == <<"sk_live", 0 - 1>>
UnknownKey == <<"sk_live", 0>>

\* the endpoints, by controller and route
KeysUrls == {<<"keys", "create">>, <<"keys", "revoke">>, <<"keys", "rollover">>}
WebhookUrl == <<"wallet", "paystack/webhook">>
WalletUrls ==
    {<<"wallet", "balance">>, <<"wallet", "deposit">>,
     <<"wallet", "deposit/status">>, <<"wallet", "transfer">>,
     <<"wallet", "transactions">>}

AuthOnlyEndpoint_None(url) == FALSE

\* request.url.startsWith('/keys')
AuthOnlyEndpoint(url) == url[1] = "keys"

\* this.jwtService.verify(token)
VerifyJwt(token) == token[3] = JwtSecret

\* a request on its way through the guards: the outcome so far, the
\* identity and the permissions set on it
Unresolved(creds) ==
    [status |-> "ok", reason |-> "none", user |-> "none", permissions |-> {},
     token |-> creds.token, apiKey |-> creds.apiKey]

Refused(req, kind, why) == [req EXCEPT !.status = kind, !.reason = why]

JwtAuthGuard_ReadOnly(req, url) ==
    IF req.token = NoToken /\ req.apiKey # NoKey /\ ~AuthOnlyEndpoint(url)
    THEN req
    ELSE IF req.token = NoToken /\ AuthOnlyEndpoint(url)
    THEN Refused(req, "Unauthorized",
                 "Missing authentication: Bearer JWT required")
    ELSE IF req.token = NoToken
    THEN Refused(req, "Unauthorized",
           "Missing authentication: Bearer JWT or x-api-key header required")
    ELSE IF req.token = EmptyToken
    THEN Refused(req, "Unauthorized", "No JWT token provided")
    ELSE IF VerifyJwt(req.token)
    THEN [req EXCEPT !.user = req.token[2], !.permissions = {"read"}]
    ELSE Refused(req, "Unauthorized", "Invalid or expired JWT token")

\* JwtAuthGuard.canActivate
JwtAuthGuard(req, url) ==
    IF req.token = NoToken /\ req.apiKey # NoKey /\ ~AuthOnlyEndpoint(url)
    THEN req
    ELSE IF req.token = NoToken /\ AuthOnlyEndpoint(url)
    THEN Refused(req, "Unauthorized",
                 "Missing authentication: Bearer JWT required")
    ELSE IF req.token = NoToken
    THEN Refused(req, "Unauthorized",
           "Missing authentication: Bearer JWT or x-api-key header required")
    ELSE IF req.token = EmptyToken
    THEN Refused(req, "Unauthorized", "No JWT token provided")
    ELSE IF VerifyJwt(req.token)
    THEN [req EXCEPT !.user = req.token[2], !.permissions = AllPermissions]
    ELSE Refused(req, "Unauthorized", "Invalid or expired JWT token")

\* prisma.apiKey.findUnique({ where: { key } }): the row's id, 0 for none
FindApiKeyByKey(secret) ==
    IF \E i \in 1..Len(apiKeys) : apiKeys[i].key = secret
    THEN CHOOSE i \in 1..Len(apiKeys) : apiKeys[i].key = secret
    ELSE 0

ApiKeyGate_LastOwner(req) ==
    IF req.user # "none" THEN req
    ELSE IF req.apiKey = NoKey
    THEN Refused(req, "Unauthorized",
           "Missing authentication: Bearer JWT or x-api-key header required")
    ELSE IF ApiKeyGuard(req.apiKey) # "ok"
    THEN Refused(req, "Forbidden", ApiKeyGuard(req.apiKey))
    ELSE [req EXCEPT !.user = apiKeys[Len(apiKeys)].userId,
                     !.permissions =
                        apiKeys[FindApiKeyByKey(req.apiKey)].permissions]

ApiKeyGate_AllPermissions(req) ==
    IF req.user # "none" THEN req
    ELSE IF req.apiKey = NoKey
    THEN Refused(req, "Unauthorized",
           "Missing authentication: Bearer JWT or x-api-key header required")
    ELSE IF ApiKeyGuard(req.apiKey) # "ok"
    THEN Refused(req, "Forbidden", ApiKeyGuard(req.apiKey))
    ELSE [req EXCEPT !.user = apiKeys[FindApiKeyByKey(req.apiKey)].userId,
                     !.permissions = AllPermissions]

\* ApiKeyGuard.canActivate on the request the earlier guard passed on
ApiKeyGate(req) ==
    IF req.user # "none" THEN req
    ELSE IF req.apiKey = NoKey
    THEN Refused(req, "Unauthorized",
           "Missing authentication: Bearer JWT or x-api-key header required")
    ELSE IF ApiKeyGuard(req.apiKey) # "ok"
    THEN Refused(req, "Forbidden", ApiKeyGuard(req.apiKey))
    ELSE [req EXCEPT !.user = apiKeys[FindApiKeyByKey(req.apiKey)].userId,
                     !.permissions =
                        apiKeys[FindApiKeyByKey(req.apiKey)].permissions]

Guards_WebhookGuarded(url) ==
    IF AuthOnlyEndpoint(url) THEN <<"jwt">> ELSE <<"jwt", "apiKey">>

\* the guards @UseGuards puts on an endpoint, in order
Guards(url) ==
    IF AuthOnlyEndpoint(url) THEN <<"jwt">>
    ELSE IF url = WebhookUrl THEN <<>>
    ELSE <<"jwt", "apiKey">>

Authenticate_KeyFallback(creds, url) ==
    LET gs == Guards(url)
        r0 == Unresolved(creds)
        r1 == IF Len(gs) >= 1 THEN JwtAuthGuard(r0, url) ELSE r0
    IN IF Len(gs) >= 2
       THEN (IF r1.status # "ok" /\ creds.apiKey # NoKey
             THEN ApiKeyGate(r0) ELSE IF r1.status # "ok" THEN r1
             ELSE ApiKeyGate(r1))
       ELSE r1

\* The guards of the endpoint run in order until one refuses.
Authenticate(creds, url) ==
    LET gs == Guards(url)
        run(req, g) == IF req.status # "ok" THEN req
                       ELSE IF g = "jwt" THEN JwtAuthGuard(req, url)
                       ELSE ApiKeyGate(req)
        r0 == Unresolved(creds)
        r1 == IF Len(gs) >= 1 THEN run(r0, gs[1]) ELSE r0
    IN IF Len(gs) >= 2 THEN run(r1, gs[2]) ELSE r1

\* WalletController.validateApiKeyPermission
validateApiKeyPermission(permissions, requiredPermission) ==
    requiredPermission \in permissions

\* if(!permitted) throw new UnauthorizedException(...)
PermissionRefusal(req) ==
    Refused(req, "Unauthorized",
       "This api key does not have the necessary permissions to  perform this action")

\* The guards of a wallet endpoint and the permission test of its handler.
Admit(creds, url, requiredPermission) ==
    LET req == Authenticate(creds, url)
    IN IF req.status # "ok" THEN req
       ELSE IF ~validateApiKeyPermission(req.permissions, requiredPermission)
       THEN PermissionRefusal(req)
       ELSE req

\* The request is answered with the refusal of its guards or handler.
Reject(p, op, req) ==
    /\ CanStart(p)
    /\ started' = started + 1
    /\ proc' = Arrive(p, Reply(op, req.reason, req.status))
    /\ UNCHANGED <<balance, txs, transfers, gateway>>
    /\ UNCHANGED keyVars

(* ---------------------------- reads ------------------------------------ *)
UnknownReference == <<"wallet", "nobody", 0>>

\* prisma.transaction.findUnique({ where: { reference } }): the row's
\* position, 0 when there is none
FindTxByReference(reference) ==
    IF \E i \in 1..Len(txs) : txs[i].reference = reference
    THEN CHOOSE i \in 1..Len(txs) : txs[i].reference = reference
    ELSE 0

NeedsGateway_Always(t) == TRUE

\* transaction.paystackRef && transaction.status === 'pending'
NeedsGateway(t) == t.paystackRef # NoRef /\ t.status = "pending"

\* { reference, status, amount } of the row verifyDepositStatus read
StatusReply(reference, status, amount) ==
    [Reply("status", "status", "Verified deposit status") EXCEPT
       !.reference = reference, !.status = status, !.amount = amount]

\* lookup of the Transaction by its reference
verifyDepositStatus(p, reference) ==
    /\ CanStart(p)
    /\ started' = started + 1
    /\ LET i == FindTxByReference(reference)
       IN proc' = Arrive(p,
            IF i = 0
            THEN Reply("status", "Transaction not found",
                       "Error verifying deposit status")
            ELSE IF NeedsGateway(txs[i])
            THEN [Idle EXCEPT !.op = "status", !.pc = "vs_gateway",
                              !.reference = txs[i].reference,
                              !.status = txs[i].status,
                              !.amount = txs[i].amount,
                              !.ref = txs[i].paystackRef]
            ELSE StatusReply(txs[i].reference, txs[i].status, txs[i].amount))
    /\ UNCHANGED <<balance, txs, transfers, gateway>>
    /\ UNCHANGED keyVars

\* what verifyTransaction comes back with: the status the gateway reports
\* for the charge, or "error" when the call fails
GatewayReports == {"success", "failed", "abandoned", "error"}

verifyDepositStatus_gateway_Settles(p) ==
    /\ proc[p].pc = "vs_gateway"
    /\ \E report \in GatewayReports :
         LET i == FindTxByReference(proc[p].reference)
         IN /\ proc' = [proc EXCEPT ![p] =
                 [(IF report # "error"
                   THEN StatusReply(proc[p].reference, proc[p].status,
                                    proc[p].amount)
                   ELSE Reply("status",
                              "Failed to verify payment. Please try again.",
                              "Error verifying deposit status"))
                  EXCEPT !.conc = proc[p].conc]]
            /\ IF report = "success" /\ txs[i].status = "pending"
               THEN /\ txs' = [txs EXCEPT ![i].status = "success"]
                    /\ balance' = [balance EXCEPT ![txs[i].wallet] =
                                      @ + txs[i].amount]
               ELSE UNCHANGED <<balance, txs>>
    /\ UNCHANGED <<transfers, gateway, started>>
    /\ UNCHANGED keyVars

\* the answer of the gateway to verifyTransaction, which the service drops
verifyDepositStatus_gateway(p) ==
    /\ proc[p].pc = "vs_gateway"
    /\ \E report \in GatewayReports :
         proc' = [proc EXCEPT ![p] =
            [(IF report # "error"
              THEN StatusReply(proc[p].reference, proc[p].status,
                               proc[p].amount)
              ELSE Reply("status",
                         "Failed to verify payment. Please try again.",
                         "Error verifying deposit status"))
             EXCEPT !.conc = proc[p].conc]]
    /\ UNCHANGED <<balance, txs, transfers, gateway, started>>
    /\ UNCHANGED keyVars

\* WalletService.getWalletBalance
getWalletBalance(p, userId) ==
    /\ CanStart(p)
    /\ started' = started + 1
    /\ proc' = Arrive(p,
         IF FindWalletByUser(userId) = NoWallet
         THEN Reply("balance", "Wallet not found",
                    "Error getting wallet balance")
         ELSE [Reply("balance", "balance", "none") EXCEPT
                 !.user = userId, !.amount = balance[userId]])
    /\ UNCHANGED <<balance, txs, transfers, gateway>>
    /\ UNCHANGED keyVars

\* WalletService.getTransactionHistory: the number of rows it returns
getTransactionHistory(p, userId) ==
    /\ CanStart(p)
    /\ started' = started + 1
    /\ proc' = Arrive(p,
         IF FindWalletByUser(userId) = NoWallet
         THEN Reply("transactions", "Wallet not found",
                    "Error getting transaction history")
         ELSE [Reply("transactions", "transactions", "none") EXCEPT
                 !.user = userId,
                 !.amount = Cardinality({i \in 1..Len(txs) :
                                           txs[i].wallet = userId})])
    /\ UNCHANGED <<balance, txs, transfers, gateway>>
    /\ UNCHANGED keyVars

(* ---------------------------- wallet endpoints ------------------------- *)
\* WalletController: each handler runs behind the guards of its route and
\* its own permission test.
Controller_getBalance(p, creds) ==
    LET req == Admit(creds, <<"wallet", "balance">>, "read")
    IN IF req.status = "ok" THEN getWalletBalance(p, req.user)
       ELSE Reject(p, "balance", req)

Controller_initializeDeposit(p, creds, amount) ==
    LET req == Admit(creds, <<"wallet", "deposit">>, "deposit")
    IN IF req.status = "ok" THEN initializeDeposit(p, req.user, amount)
       ELSE Reject(p, "deposit", req)

Controller_verifyDepositStatus(p, creds, reference) ==
    LET req == Admit(creds, <<"wallet", "deposit/status">>, "read")
    IN IF req.status = "ok" THEN verifyDepositStatus(p, reference)
       ELSE Reject(p, "status", req)

Controller_transfer(p, creds, wallet_number, amount) ==
    LET req == Admit(creds, <<"wallet", "transfer">>, "transfer")
    IN IF req.status = "ok"
       THEN transferFunds(p, req.user, wallet_number, amount)
       ELSE Reject(p, "transfer", req)

Controller_getTransactions(p, creds) ==
    LET req == Admit(creds, <<"wallet", "transactions">>, "read")
    IN IF req.status = "ok" THEN getTransactionHistory(p, req.user)
       ELSE Reject(p, "transactions", req)

Controller_handlePaystackWebhook(p, creds, event, signature) ==
    LET req == Authenticate(creds, WebhookUrl)
    IN IF req.status = "ok" THEN handlePaystackWebhook(p, event, signature)
       ELSE Reject(p, "webhook", req)

(* ---------------------------- gate specification ----------------------- *)
\* The credential store after u1 created a read-only key for one hour and a
\* key with every permission for one year, and u2 created a key with every
\* permission and revoked it, all at clock 0.
GateKeys ==
    LET k1 == <<NewApiKey(<<>>, "u1", {"read"},
                          calculateExpireTime("1H", 0), Null)>>
        k2 == Append(k1, NewApiKey(k1, "u1", AllPermissions,
                                   calculateExpireTime("1Y", 0), Null))
        k3 == Append(k2, NewApiKey(k2, "u2", AllPermissions,
                                   calculateExpireTime("1Y", 0), Null))
    IN [k3 EXCEPT ![3] = RevokeWrite(@, 0)]

GateInit ==
    /\ balance = [u \in WalletOwners |-> 0]
    /\ txs = <<>>
    /\ transfers = <<>>
    /\ gateway = {}
    /\ proc = [p \in Procs |-> Idle]
    /\ started = 0
    /\ apiKeys = GateKeys
    /\ now = 0
    /\ kproc = [p \in KeyProcs |-> KeyIdle]
    /\ kstarted = 0

\* what the requests present: a session token, an API key, both or nothing
GateCreds ==
    {[token |-> Token(u), apiKey |-> NoKey] : u \in WalletOwners} \cup
    {[token |-> NoToken, apiKey |-> k] :
        k \in {generateApiKey(i) : i \in 1..3} \cup {UnknownKey}} \cup
    {[token |-> NoToken, apiKey |-> NoKey],
     [token |-> ForgedToken("u1"), apiKey |-> generateApiKey(2)],
     [token |-> Token("u2"), apiKey |-> generateApiKey(1)],
     [token |-> Token("u2"), apiKey |-> generateApiKey(3)],
     [token |-> Token("u2"), apiKey |-> UnknownKey]}

\* what a gateway notification may carry besides its signature
WebhookCreds ==
    {[token |-> NoToken, apiKey |-> NoKey],
     [token |-> ForgedToken("u1"), apiKey |-> UnknownKey]}

StatusReferences == {txs[i].reference : i \in 1..Len(txs)} \cup {UnknownReference}

\* Requests are served one at a time; the clock moves between them.
\* a request arrives when no other is in flight
GateQuiet == Quiet /\ started < MaxGateOps

GateNext ==
    \/ \E p \in Procs, c \in GateCreds : GateQuiet /\ Controller_getBalance(p, c)
    \/ \E p \in Procs, c \in GateCreds, a \in Amounts :
          GateQuiet /\ Controller_initializeDeposit(p, c, a)
    \/ \E p \in Procs : initializeDeposit_create(p)
    \/ \E p \in Procs, c \in GateCreds, r \in StatusReferences :
          GateQuiet /\ Controller_verifyDepositStatus(p, c, r)
    \/ \E p \in Procs : verifyDepositStatus_gateway(p)
    \/ \E p \in Procs, c \in WebhookCreds, e \in WebhookEvents :
          \E s \in WebhookSignatures(e) :
             GateQuiet /\ Controller_handlePaystackWebhook(p, c, e, s)
    \/ \E p \in Procs : handlePaystackWebhook_tx(p)
    \/ \E p \in Procs, c \in GateCreds, n \in WalletNumbers, a \in Amounts :
          GateQuiet /\ Controller_transfer(p, c, n, a)
    \/ \E p \in Procs : transferFunds_findRecipient(p)
    \/ \E p \in Procs : transferFunds_tx(p)
    \/ \E p \in Procs, c \in GateCreds : GateQuiet /\ Controller_getTransactions(p, c)
    \/ Quiet /\ Tick

GateSpec == GateInit /\ [][GateNext]_vars

(* ---------------------------- API-key requests ------------------------- *)
\* The store of the gate with one more key: an active key of u2 with every
\* permission, created at clock 0.
ApiKeyKeys ==
    Append(GateKeys, NewApiKey(GateKeys, "u2", AllPermissions,
                               calculateExpireTime("1Y", 0), Null))

ApiKeyInit ==
    /\ balance = [u \in WalletOwners |-> 0]
    /\ txs = <<>>
    /\ transfers = <<>>
    /\ gateway = {}
    /\ proc = [p \in Procs |-> Idle]
    /\ started = 0
    /\ apiKeys = ApiKeyKeys
    /\ now = 0
    /\ kproc = [p \in KeyProcs |-> KeyIdle]
    /\ kstarted = 0

\* requests that present an API key and no session token
ApiKeyCreds ==
    {[token |-> NoToken, apiKey |-> k] :
        k \in {generateApiKey(i) : i \in 1..4} \cup {UnknownKey}}

\* Every wallet request presents only an API key; the gateway's
\* notifications present nothing.
ApiKeyNext ==
    \/ \E p \in Procs, c \in ApiKeyCreds : GateQuiet /\ Controller_getBalance(p, c)
    \/ \E p \in Procs, c \in ApiKeyCreds, a \in Amounts :
          GateQuiet /\ Controller_initializeDeposit(p, c, a)
    \/ \E p \in Procs : initializeDeposit_create(p)
    \/ \E p \in Procs, c \in ApiKeyCreds, r \in StatusReferences :
          GateQuiet /\ Controller_verifyDepositStatus(p, c, r)
    \/ \E p \in Procs : verifyDepositStatus_gateway(p)
    \/ \E p \in Procs, e \in WebhookEvents :
          \E s \in WebhookSignatures(e) :
             GateQuiet /\ Controller_handlePaystackWebhook(
                             p, [token |-> NoToken, apiKey |-> NoKey], e, s)
    \/ \E p \in Procs : handlePaystackWebhook_tx(p)
    \/ \E p \in Procs, c \in ApiKeyCreds, n \in WalletNumbers, a \in Amounts :
          GateQuiet /\ Controller_transfer(p, c, n, a)
    \/ \E p \in Procs : transferFunds_findRecipient(p)
    \/ \E p \in Procs : transferFunds_tx(p)
    \/ \E p \in Procs, c \in ApiKeyCreds :
          GateQuiet /\ Controller_getTransactions(p, c)
    \/ Quiet /\ Tick

ApiKeySpec == ApiKeyInit /\ [][ApiKeyNext]_vars

TypeOK ==
    /\ balance \in [WalletOwners -> Int]
    /\ started \in 0..MaxOps
    /\ \A p \in Procs : proc[p].pc \in
         {"idle", "done", "dep_create", "wh_tx", "tr_recipient", "tr_tx",
          "dep_gateway", "vs_gateway"}

(* ---------------------------- steps ----------------------------------- *)
\* The settlement unit of request p commits in this step.
SettleCommits(p) ==
    /\ proc[p].pc = "wh_tx"
    /\ proc'[p].pc = "done"
    /\ proc'[p].result = "ack"

\* The transfer unit of request p commits in this step.
TransferCommits(p) ==
    /\ proc[p].pc = "tr_tx"
    /\ proc'[p].pc = "done"
    /\ proc'[p].result = "Transfer completed"

\* Requests p and q overlapped in time.
Concurrent(p, q) == q \in proc[p].conc /\ p \in proc[q].conc

LedgerUnchanged == UNCHANGED <<balance, txs, transfers>>

(* ---------------------------- balance and ledger ----------------------- *)
\* What row t contributes to the balance of its wallet.
Contribution(t) ==
    IF t.status # "success" THEN 0
    ELSE IF t.type = "deposit" THEN t.amount
    ELSE IF t.description = "Received from" THEN t.amount
    ELSE 0 - t.amount

RECURSIVE SettledSum(_, _)
SettledSum(u, n) ==
    IF n = 0 THEN 0
    ELSE SettledSum(u, n - 1) +
         (IF txs[n].wallet = u THEN Contribution(txs[n]) ELSE 0)

SettledBalance(u) == SettledSum(u, Len(txs))

\* C1: in every reachable state each wallet's balance equals the sum of its
\* success deposits plus the success transfers it received minus the
\* success transfers it sent.
C1_BalanceEqualsSettled ==
    \A u \in WalletOwners : balance[u] = SettledBalance(u)

\* C2: a charge.success notification delivered by concurrent handlers is
\* credited once: when a handler's settlement commits for a Transaction that
\* another delivery has already made success, the wallet's balance does not
\* move again.
C2_DuplicateCreditedOnce ==
    [][\A p \in Procs :
         (SettleCommits(p) /\ txs[proc[p].txi].status = "success")
            => balance'[proc[p].user] = balance[proc[p].user]]_vars

\* A transfer that ended with one of its two ordinary outcomes.
TransferEnded(p) ==
    /\ proc[p].op = "transfer"
    /\ proc[p].pc = "done"
    /\ proc[p].result \in {"Transfer completed", "Insufficient balance"}

\* The requests of S are transfers of one amount out of one wallet that
\* overlapped, read the same balance and together ask for more than it.
Competing(S) ==
    /\ Cardinality(S) >= 2
    /\ \A p \in S : TransferEnded(p)
    /\ \A p, q \in S :
         /\ p # q => Concurrent(p, q)
         /\ proc[p].user = proc[q].user
         /\ proc[p].amount = proc[q].amount
         /\ proc[p].sBal = proc[q].sBal
    /\ \A p \in S : Cardinality(S) * proc[p].amount > proc[p].sBal

\* C3: concurrent transfers of the same amount a that debit the same wallet
\* from the same balance b, with more asked than b holds, end with exactly
\* b \div a successes, the others failing with insufficient balance.
C3_ExactlyFloorSucceed ==
    \A S \in SUBSET Procs :
       Competing(S) =>
          \A p \in S :
             Cardinality({q \in S : proc[q].result = "Transfer completed"})
                = proc[p].sBal \div proc[p].amount

\* C4: no committed unit of work loses another's update: a transfer that
\* commits moves the sender's current balance down and the recipient's
\* current balance up by its amount, and the first settlement of a deposit
\* moves the wallet's current balance up by the deposit's amount, as in a
\* serial execution of the same operations.
C4_NoLostUpdate ==
    [][\A p \in Procs :
         /\ TransferCommits(p) =>
              /\ balance'[proc[p].user] = balance[proc[p].user] - proc[p].amount
              /\ balance'[proc[p].rUser] =
                    balance[proc[p].rUser] + proc[p].amount
         /\ (SettleCommits(p) /\ txs[proc[p].txi].status = "pending") =>
              balance'[proc[p].user] = balance[proc[p].user] + proc[p].amount
      ]_vars

\* C5: no wallet balance is ever negative.
C5_BalanceNonNegative == \A u \in WalletOwners : balance[u] >= 0

\* Two overlapping transfers out of the same wallet both completed although
\* the balance they read covers only one of them.
C5_Witness ==
    \E p, q \in Procs :
       /\ p # q
       /\ Concurrent(p, q)
       /\ proc[p].op = "transfer" /\ proc[q].op = "transfer"
       /\ proc[p].result = "Transfer completed"
       /\ proc[q].result = "Transfer completed"
       /\ proc[p].user = proc[q].user
       /\ proc[p].sBal < proc[p].amount + proc[q].amount
       /\ balance[proc[p].user] = 0

\* The slot that takes the request arriving in this step.
Arrives(p) == CanStart(p) /\ started' = started + 1

\* The delivery on slot p settled its Transaction, the one on slot q found
\* the same Transaction already success.
Redelivered(p, q) ==
    /\ proc[p].op = "webhook" /\ proc[q].op = "webhook"
    /\ proc[p].pc = "done" /\ proc[q].pc = "done"
    /\ proc[p].ref = proc[q].ref
    /\ proc[p].log = "Deposit successful"
    /\ proc[q].log = "Transaction already processed"

\* C6: a validly signed charge.success notification that arrives when the
\* Transaction of its gateway reference is already success is answered at
\* once, changes no balance, no Transaction and no Transfer, and its
\* acknowledgement is the one the settling delivery returned.
C6_RedeliveryChangesNothing ==
    /\ [](\A p, q \in Procs :
            Redelivered(p, q) => proc[q].result = proc[p].result)
    /\ [][\A p \in Procs :
           LET i == FindTxByPaystackRef(proc'[p].ref)
           IN (/\ Arrives(p)
               /\ proc'[p].op = "webhook"
               /\ proc'[p].ref # NoRef
               /\ i # 0
               /\ txs[i].status = "success")
              => /\ proc'[p].pc = "done"
                 /\ proc'[p].result = "ack"
                 /\ LedgerUnchanged
        ]_vars

\* A notification found its Transaction already settled by an earlier
\* delivery, and the wallet holds the amount once.
C6_Witness ==
    \E p, q \in Procs :
       /\ Redelivered(p, q)
       /\ FindTxByPaystackRef(proc[q].ref) # 0
       /\ balance[txs[FindTxByPaystackRef(proc[q].ref)].wallet] =
             txs[FindTxByPaystackRef(proc[q].ref)].amount

\* The rows a committed transfer of request r adds to a ledger.
TransferRecorded(r) ==
    /\ Len(transfers') = Len(transfers) + 1
    /\ SubSeq(transfers', 1, Len(transfers)) = transfers
    /\ LET t == transfers'[Len(transfers')]
       IN /\ t.senderId = r.user /\ t.recipientId = r.rUser
          /\ t.amount = r.amount /\ t.status = "success"
    /\ Len(txs') = Len(txs) + 2
    /\ SubSeq(txs', 1, Len(txs)) = txs
    /\ LET out == txs'[Len(txs) + 1]
           inc == txs'[Len(txs) + 2]
       IN /\ out.wallet = r.user /\ inc.wallet = r.rUser
          /\ out.type = "transfer" /\ inc.type = "transfer"
          /\ out.amount = r.amount /\ inc.amount = r.amount
          /\ out.status = "success" /\ inc.status = "success"
          /\ out.reference # inc.reference

\* C7: the five writes of a transfer commit together or not at all: the step
\* that ends the unit of work either leaves every balance and every record
\* as it was, or writes both balances and adds the Transfer row and the two
\* Transaction rows.
C7_TransferAllOrNothing ==
    [][\A p \in Procs :
         (proc[p].pc = "tr_tx" /\ proc'[p].pc # "tr_tx") =>
            \/ /\ proc'[p].result = "StoreError"
               /\ LedgerUnchanged
            \/ /\ proc'[p].result = "Transfer completed"
               /\ balance' = [balance EXCEPT
                     ![proc[p].user] = proc[p].sBal - proc[p].amount,
                     ![proc[p].rUser] = proc[p].rBal + proc[p].amount]
               /\ TransferRecorded(proc[p])
      ]_vars

\* A transfer's unit of work failed after another transfer had committed.
C7_Witness ==
    /\ Len(transfers) > 0
    /\ \E p \in Procs :
          /\ proc[p].op = "transfer"
          /\ proc[p].pc = "done"
          /\ proc[p].result = "StoreError"

\* C8: settlement is one unit of work: the step that ends it either marks
\* the Transaction success and writes the credited balance of its wallet, or
\* leaves the Transaction's status and every balance as they were.
C8_SettlementOneUnit ==
    [][\A p \in Procs :
         (proc[p].pc = "wh_tx" /\ proc'[p].pc # "wh_tx") =>
            \/ /\ proc'[p].result = "StoreError"
               /\ LedgerUnchanged
            \/ /\ proc'[p].result = "ack"
               /\ txs' = [txs EXCEPT ![proc[p].txi].status = "success"]
               /\ balance' = [balance EXCEPT
                     ![proc[p].user] = proc[p].sBal + proc[p].amount]
               /\ UNCHANGED transfers
      ]_vars

\* A settlement failed while its Transaction was pending, and another
\* deposit has been settled and credited.
C8_Witness ==
    /\ \E p \in Procs :
          /\ proc[p].op = "webhook"
          /\ proc[p].pc = "done"
          /\ proc[p].result = "StoreError"
    /\ \E i \in 1..Len(txs) : txs[i].type = "deposit" /\ txs[i].status = "pending"
    /\ \E i \in 1..Len(txs) :
          /\ txs[i].type = "deposit" /\ txs[i].status = "success"
          /\ balance[txs[i].wallet] >= txs[i].amount

\* C9: served without concurrent requests, a transfer that completes takes
\* its amount off the sender's balance, adds it to the balance of the
\* recipient, a different wallet, leaves every other balance alone and adds
\* one success Transfer row and two success Transaction rows of type
\* transfer, one on each wallet.
C9_TransferEffect ==
    [][\A p \in Procs :
         TransferCommits(p) =>
            /\ proc[p].user # proc[p].rUser
            /\ balance' = [balance EXCEPT
                  ![proc[p].user] = balance[proc[p].user] - proc[p].amount,
                  ![proc[p].rUser] = balance[proc[p].rUser] + proc[p].amount]
            /\ TransferRecorded(proc[p])
      ]_vars

\* A transfer has completed and left the sender part of the balance.
C9_Witness ==
    \E p \in Procs :
       /\ proc[p].op = "transfer"
       /\ proc[p].result = "Transfer completed"
       /\ Len(transfers) = 1
       /\ balance[proc[p].user] = proc[p].sBal - proc[p].amount
       /\ balance[proc[p].user] > 0
       /\ balance[proc[p].rUser] = proc[p].amount

\* The outcomes of a transfer that failed a precondition.
PreconditionFailures ==
    {"Sender wallet not found", "Recipient wallet not found",
     "Cannot transfer to your own wallet", "Insufficient balance"}

\* C10: a transfer that fails a precondition changes nothing: the step that
\* reports the failure leaves every balance, Transaction and Transfer as it
\* was, and a transfer whose unit of work writes anything has a sender
\* wallet, a recipient wallet other than the sender's, and read a balance
\* that covers the amount.
C10_FailedTransferChangesNothing ==
    [][\A p \in Procs :
         /\ (/\ proc'[p].op = "transfer"
             /\ proc'[p] # proc[p]
             /\ proc'[p].result \in PreconditionFailures) => LedgerUnchanged
         /\ (proc[p].pc = "tr_tx" /\ ~LedgerUnchanged) =>
               /\ FindWalletByUser(proc[p].user) # NoWallet
               /\ FindWalletByNumber(proc[p].wnum) # NoWallet
               /\ FindWalletByNumber(proc[p].wnum) = proc[p].rUser
               /\ proc[p].rUser # proc[p].user
               /\ proc[p].sBal >= proc[p].amount
      ]_vars

\* A transfer was refused for insufficient balance while the ledger already
\* held a settled deposit.
C10_Witness ==
    /\ \E p \in Procs :
          /\ proc[p].op = "transfer"
          /\ proc[p].pc = "done"
          /\ proc[p].result = "Insufficient balance"
          /\ proc[p].sBal > 0
    /\ Len(txs) > 0

(* ---------------------------- Transaction status ----------------------- *)
\* C11: a Transaction's status only moves from pending to success or from
\* pending to failed, and once a Transaction is success no settlement
\* commits for it again.
C11_StatusOnlyForward ==
    [][\A i \in 1..Len(txs) :
         /\ Len(txs') >= Len(txs)
         /\ txs'[i].status # txs[i].status =>
               /\ txs[i].status = "pending"
               /\ txs'[i].status \in {"success", "failed"}
         /\ txs[i].status = "success" =>
               \A p \in Procs : ~(SettleCommits(p) /\ proc[p].txi = i)
      ]_vars

\* C12: a notification whose signature is not the HMAC of its body under
\* the gateway's secret is answered with the invalid-signature error at
\* once and changes no Transaction and no balance, whatever event and
\* reference it carries.
C12_InvalidSignatureRejected ==
    [][\A p \in Procs :
         (/\ Arrives(p)
          /\ proc'[p].op = "webhook"
          /\ proc'[p].signature # Hmac(SecretKey, Stringify(proc'[p].body)))
         => /\ proc'[p].pc = "done"
            /\ proc'[p].result = "Invalid webhook signature"
            /\ LedgerUnchanged
      ]_vars

\* A notification naming a pending deposit's gateway reference with
\* charge.success, signed for another body, was refused and the deposit is
\* still pending.
C12_Witness ==
    \E p \in Procs :
       /\ proc[p].op = "webhook"
       /\ proc[p].pc = "done"
       /\ proc[p].result = "Invalid webhook signature"
       /\ proc[p].body.event = "charge.success"
       /\ proc[p].signature[2] = SecretKey
       /\ FindTxByPaystackRef(proc[p].body.reference) # 0
       /\ txs[FindTxByPaystackRef(proc[p].body.reference)].status = "pending"
       /\ balance[txs[FindTxByPaystackRef(proc[p].body.reference)].wallet] = 0

(* ---------------------------- deposits --------------------------------- *)
\* C13: a deposit initiated with amount a asks the gateway to charge 100 * a,
\* and the settlement of the charge.success notification for its gateway
\* reference makes the Transaction success and raises the wallet's balance
\* by a, not by 100 * a.
C13_ChargeScaledCreditUnscaled ==
    [][\A p \in Procs :
         /\ (Arrives(p) /\ proc'[p].op = "deposit" /\ gateway' # gateway) =>
               gateway' \ gateway =
                  {[reference |-> proc'[p].ref,
                    amount |-> 100 * proc'[p].amount]}
         /\ SettleCommits(p) =>
               LET t == txs[proc[p].txi]
               IN /\ t.paystackRef = proc[p].body.reference
                  /\ [reference |-> t.paystackRef, amount |-> 100 * t.amount]
                        \in gateway
                  /\ txs'[proc[p].txi].status = "success"
                  /\ balance'[t.wallet] = balance[t.wallet] + t.amount
      ]_vars

\* A deposit of 2 was charged as 200 by the gateway and its notification
\* left the wallet with 2.
C13_Witness ==
    \E p \in Procs :
       /\ proc[p].op = "webhook"
       /\ proc[p].log = "Deposit successful"
       /\ LET i == FindTxByPaystackRef(proc[p].ref)
          IN /\ i # 0
             /\ txs[i].amount = 2
             /\ txs[i].status = "success"
             /\ [reference |-> proc[p].ref, amount |-> 200] \in gateway
             /\ balance[txs[i].wallet] = 2

\* C14: an initiateDeposit that succeeds adds one pending deposit
\* Transaction on the caller's wallet, with the requested amount, a fresh
\* internal reference and the reference the gateway returned; no step of a
\* deposit request changes a balance or a Transfer, and a balance changes
\* only when a settlement or a transfer commits.
C14_InitiateAddsOnePending ==
    [][/\ \A p \in Procs :
            (proc'[p].op = "deposit" /\ proc'[p] # proc[p]) =>
               /\ UNCHANGED <<balance, transfers>>
               /\ IF proc[p].pc = "dep_create" /\ proc'[p].result = "initiated"
                  THEN /\ Len(txs') = Len(txs) + 1
                       /\ SubSeq(txs', 1, Len(txs)) = txs
                       /\ LET t == txs'[Len(txs')]
                          IN /\ t.wallet = FindWalletByUser(proc[p].user)
                             /\ t.type = "deposit"
                             /\ t.status = "pending"
                             /\ t.amount = proc[p].amount
                             /\ t.paystackRef = proc[p].ref
                             /\ \E g \in gateway : g.reference = t.paystackRef
                             /\ \A i \in 1..Len(txs) :
                                   /\ txs[i].reference # t.reference
                                   /\ txs[i].paystackRef # t.paystackRef
                  ELSE UNCHANGED txs
       /\ balance' # balance =>
             \E p \in Procs : SettleCommits(p) \/ TransferCommits(p)
      ]_vars

\* Two deposits were initiated on one wallet and none has been notified:
\* two pending rows, balance still 0.
C14_Witness ==
    /\ \E p \in Procs :
          /\ proc[p].op = "deposit"
          /\ proc[p].pc = "done"
          /\ proc[p].result = "initiated"
    /\ Len(txs) = 2
    /\ txs[1].wallet = txs[2].wallet
    /\ txs[1].status = "pending" /\ txs[2].status = "pending"
    /\ balance[txs[1].wallet] = 0

(* ---------------------------- credentials ------------------------------ *)
\* The number of keys of identity u in store keys that are active at clock
\* t: not revoked and with an expiry in the future.
ActiveIn(keys, t, u) ==
    Cardinality({i \in 1..Len(keys) :
                   /\ keys[i].userId = u
                   /\ keys[i].revokedAt = Null
                   /\ keys[i].expiresAt > t})

\* C15: right after a credential is created, by create or by rollover, its
\* identity holds at most 5 active credentials.
C15_AtMostFiveActive ==
    [][Len(apiKeys') > Len(apiKeys) =>
          ActiveIn(apiKeys', now', apiKeys'[Len(apiKeys')].userId) <= 5]_vars

\* C16: a create called while its identity holds 5 active credentials is
\* refused with the limit error and stores nothing; a create called while
\* the identity holds fewer (one was revoked, or has expired) is admitted,
\* and an admitted create adds one credential of its caller unless the
\* store fails.
C16_LimitThenRoom ==
    [][\A p \in KeyProcs :
         /\ \A c \in CreateInputs :
              createApiKey(p, c.user, c.permissions, c.expiry) =>
                 IF ActiveIn(apiKeys, now, c.user) >= 5
                 THEN /\ kproc'[p].pc = "done"
                      /\ kproc'[p].result =
                            "Maximum of 5 active API keys allowed"
                      /\ apiKeys' = apiKeys
                 ELSE kproc'[p].pc = "ck_create"
         /\ (kproc[p].pc = "ck_create" /\ kproc'[p].pc = "done") =>
              \/ /\ kproc'[p].result = "created"
                 /\ Len(apiKeys') = Len(apiKeys) + 1
                 /\ SubSeq(apiKeys', 1, Len(apiKeys)) = apiKeys
                 /\ apiKeys'[Len(apiKeys')].userId = kproc[p].user
              \/ /\ kproc'[p].result = "Failed to create API key"
                 /\ apiKeys' = apiKeys
      ]_vars

\* u1 was refused a sixth key, revoked one of its five and then created a
\* key: five are active again.
C16_Witness ==
    /\ \E p, q \in KeyProcs :
          /\ kproc[p].op = "create"
          /\ kproc[p].result = "Maximum of 5 active API keys allowed"
          /\ kproc[q].op = "create"
          /\ kproc[q].result = "created"
    /\ \E i \in 1..Len(apiKeys) :
          apiKeys[i].userId = "u1" /\ apiKeys[i].revokedAt # Null
    /\ ActiveIn(apiKeys, now, "u1") = 5
    /\ Len(apiKeys) = 6

\* C17: once the Access Gate refuses a credential's secret as revoked or
\* expired it never accepts that secret again: no step clears a revocation,
\* moves an expiry or a secret, or turns the clock back.
C17_InactivityPermanent ==
    [][/\ now' >= now
       /\ Len(apiKeys') >= Len(apiKeys)
       /\ \A i \in 1..Len(apiKeys) :
            /\ apiKeys'[i].key = apiKeys[i].key
            /\ apiKeys'[i].expiresAt = apiKeys[i].expiresAt
            /\ apiKeys[i].revokedAt # Null => apiKeys'[i].revokedAt # Null
            /\ ApiKeyGuard(apiKeys[i].key) # "ok" =>
                  ApiKeyGuard(apiKeys[i].key)' # "ok"
      ]_vars

\* An expired key has been rolled over and a revoked key has been named in
\* a rollover: the gate refuses both.
C17_Witness ==
    /\ \E i \in 1..Len(apiKeys) :
          /\ apiKeys[i].rolledOverAt # Null
          /\ ApiKeyGuard(apiKeys[i].key) = "API key has expired"
    /\ \E i \in 1..Len(apiKeys) :
          ApiKeyGuard(apiKeys[i].key) = "API key has been revoked"
    /\ \E p \in KeyProcs :
          kproc[p].result =
             "API key has been revoked. Only expired keys can be rolled over"

\* C18: a rollover called by the owner of a credential that is neither
\* revoked nor expired ends with the still-active error, one called on a
\* revoked credential, expired or not, ends with the revoked error, and in
\* both cases the store is left as it was.
C18_RolloverRefused ==
    [][\A p \in KeyProcs, u \in KeyUsers, e \in ExpiryInputs :
         \A k \in 1..Len(apiKeys) :
            (rolloverApiKey(p, u, k, e) /\ apiKeys[k].userId = u) =>
               /\ (apiKeys[k].revokedAt = Null /\ apiKeys[k].expiresAt > now)
                    => /\ kproc'[p].pc = "done"
                       /\ kproc'[p].result = "API key is still active. Only expired keys can be rolled over"
                       /\ apiKeys' = apiKeys
               /\ apiKeys[k].revokedAt # Null
                    => /\ kproc'[p].pc = "done"
                       /\ kproc'[p].result = "API key has been revoked. Only expired keys can be rolled over"
                       /\ apiKeys' = apiKeys
      ]_vars

\* One rollover was refused as still active and another as revoked, and no
\* key has been created or stamped by a rollover.
C18_Witness ==
    /\ \E p, q \in KeyProcs :
          /\ kproc[p].result = "API key is still active. Only expired keys can be rolled over"
          /\ kproc[q].result = "API key has been revoked. Only expired keys can be rolled over"
    /\ \A i \in 1..Len(apiKeys) :
          apiKeys[i].rolledOverFrom = Null /\ apiKeys[i].rolledOverAt = Null

\* C19: a rollover is admitted only for a credential that is expired and
\* not revoked; its first write adds one credential of the same identity
\* with the old credential's permissions and a back-reference to it, its
\* second write stamps the old credential's rolled-over time and leaves
\* every other column, the revocation time among them, and every other
\* credential as they were.
C19_RolloverEffect ==
    [][\A p \in KeyProcs :
         LET k == kproc[p].keyId
         IN /\ (KeyCanStart(p) /\ kproc'[p].pc = "ro_create") =>
                 /\ apiKeys[kproc'[p].keyId].revokedAt = Null
                 /\ now > apiKeys[kproc'[p].keyId].expiresAt
            /\ (kproc[p].pc = "ro_create" /\ kproc'[p].pc = "ro_update") =>
                 /\ Len(apiKeys') = Len(apiKeys) + 1
                 /\ SubSeq(apiKeys', 1, Len(apiKeys)) = apiKeys
                 /\ LET new == apiKeys'[Len(apiKeys')]
                    IN /\ new.permissions = apiKeys[k].permissions
                       /\ new.rolledOverFrom = k
                       /\ new.userId = apiKeys[k].userId
                       /\ new.revokedAt = Null
                       /\ new.rolledOverAt = Null
            /\ (kproc[p].pc = "ro_update" /\ kproc'[p].result = "rolled over")
                 => /\ apiKeys' = [apiKeys EXCEPT ![k].rolledOverAt = now]
                    /\ apiKeys'[k].rolledOverAt # Null
                    /\ apiKeys'[k].revokedAt = apiKeys[k].revokedAt
      ]_vars

\* An expired read-only key has been rolled over: the new key is read-only
\* and points back to it, the old key is stamped and not revoked.
C19_Witness ==
    /\ \E p \in KeyProcs :
          kproc[p].op = "rollover" /\ kproc[p].result = "rolled over"
    /\ \E i, j \in 1..Len(apiKeys) :
          /\ apiKeys[j].rolledOverFrom = i
          /\ apiKeys[i].permissions = {"read"}
          /\ apiKeys[j].permissions = {"read"}
          /\ apiKeys[j].expiresAt > now
          /\ apiKeys[i].rolledOverAt # Null
          /\ apiKeys[i].revokedAt = Null

C28_FirstFailureReported ==
    [][\A p \in Procs :
         /\ \A u \in Users, n \in WalletNumbers, a \in Amounts :
              (transferFunds(p, u, n, a) /\ FindWalletByUser(u) = NoWallet)
                 => /\ proc'[p].pc = "done"
                    /\ proc'[p].result = "Sender wallet not found"
         /\ (proc[p].pc = "tr_recipient" /\ proc'[p].pc # "tr_recipient") =>
              LET r == proc[p]
                  w == FindWalletByNumber(r.wnum)
              IN IF w = NoWallet
                 THEN proc'[p].result = "Recipient wallet not found"
                 ELSE IF w = FindWalletByUser(r.user)
                 THEN proc'[p].result = "Cannot transfer to your own wallet"
                 ELSE IF r.sBal < r.amount
                 THEN proc'[p].result = "Insufficient balance"
                 ELSE proc'[p].pc = "tr_tx"
      ]_vars

\* A transfer to the sender's own wallet was refused as a self-transfer
\* while every balance was 0, less than any amount.
C28_Witness ==
    /\ \E p \in Procs :
          /\ proc[p].op = "transfer"
          /\ proc[p].pc = "done"
          /\ proc[p].result = "Cannot transfer to your own wallet"
    /\ \A u \in WalletOwners : balance[u] = 0

\* C29: a charge.success notification with a valid signature whose gateway
\* reference is on no Transaction is acknowledged at once, without error,
\* and changes no Transaction, no Transfer and no balance.
C29_UnknownReferenceAcknowledged ==
    [][\A p \in Procs :
         (/\ Arrives(p)
          /\ proc'[p].op = "webhook"
          /\ proc'[p].signature = Hmac(SecretKey, Stringify(proc'[p].body))
          /\ proc'[p].body.event = "charge.success"
          /\ \A i \in 1..Len(txs) :
                txs[i].paystackRef # proc'[p].body.reference)
         => /\ proc'[p].pc = "done"
            /\ proc'[p].result = "ack"
            /\ LedgerUnchanged
      ]_vars

\* A signed charge.success for a reference that no Transaction carries was
\* acknowledged while a deposit was pending: the deposit is still pending
\* and its wallet still holds 0.
C29_Witness ==
    /\ \E p \in Procs :
          /\ proc[p].op = "webhook"
          /\ proc[p].pc = "done"
          /\ proc[p].result = "ack"
          /\ proc[p].log = "Transaction not found"
          /\ \A i \in 1..Len(txs) : txs[i].paystackRef # proc[p].body.reference
    /\ \E i \in 1..Len(txs) :
          /\ txs[i].status = "pending"
          /\ balance[txs[i].wallet] = 0

(* ---------------------------- /keys endpoints -------------------------- *)
\* The /keys request is answered with the refusal of JwtAuthGuard.
KeyReject(p, op, req) ==
    /\ KeyCanStart(p)
    /\ kstarted' = kstarted + 1
    /\ kproc' = [kproc EXCEPT ![p] =
                   KeyReply([KeyIdle EXCEPT !.op = op], req.reason)]
    /\ UNCHANGED <<apiKeys, now>>
    /\ UNCHANGED walletVars

\* ApiKeyController: every handler runs behind the guard of the controller
\* and acts for request.user.
Controller_createApiKey(p, creds, permissions, expiry) ==
    LET req == Authenticate(creds, <<"keys", "create">>)
    IN IF req.status = "ok"
       THEN createApiKey(p, req.user, permissions, expiry)
       ELSE KeyReject(p, "create", req)

Controller_revokeApiKey(p, creds, keyId) ==
    LET req == Authenticate(creds, <<"keys", "revoke">>)
    IN IF req.status = "ok" THEN revokeApiKey(p, req.user, keyId)
       ELSE KeyReject(p, "revoke", req)

Controller_rolloverApiKey(p, creds, keyId, expiry) ==
    LET req == Authenticate(creds, <<"keys", "rollover">>)
    IN IF req.status = "ok" THEN rolloverApiKey(p, req.user, keyId, expiry)
       ELSE KeyReject(p, "rollover", req)

\* what the /keys requests present: the session token of u1 or of u2, the
\* active key of u1 that has every permission, alone or beside a token
\* that does not verify
KeyCreds ==
    {[token |-> Token(u), apiKey |-> NoKey] : u \in KeyUsers} \cup
    {[token |-> NoToken, apiKey |-> generateApiKey(2)],
     [token |-> ForgedToken("u1"), apiKey |-> generateApiKey(2)]}

\* the bodies of the create requests
KeyBodies ==
    {[permissions |-> c.permissions, expiry |-> c.expiry] : c \in CreateInputs}

\* a /keys request arrives when no other is in flight
KeyQuiet == (\A q \in KeyProcs : KeyFree(q)) /\ kstarted < MaxGateOps

KeyGateNext ==
    \/ \E p \in KeyProcs, c \in KeyCreds, b \in KeyBodies :
          KeyQuiet /\ Controller_createApiKey(p, c, b.permissions, b.expiry)
    \/ \E p \in KeyProcs : createApiKey_create(p)
    \/ \E p \in KeyProcs, c \in KeyCreds, k \in KeyIdInputs :
          KeyQuiet /\ Controller_revokeApiKey(p, c, k)
    \/ \E p \in KeyProcs : revokeApiKey_update(p)
    \/ \E p \in KeyProcs, c \in KeyCreds, k \in KeyIdInputs,
          e \in ExpiryInputs :
             KeyQuiet /\ Controller_rolloverApiKey(p, c, k, e)
    \/ \E p \in KeyProcs : rolloverApiKey_create(p)
    \/ \E p \in KeyProcs : rolloverApiKey_update(p)
    \/ KeyQuiet /\ Tick

KeyGateSpec == GateInit /\ [][KeyGateNext]_vars

(* ---------------------------- gateway calls ---------------------------- *)
\* initializeDeposit up to its call of the gateway: the wallet lookup, then
\* the request waits for paystackService.initializeTransaction
initializeDeposit_call(p, userId, amount) ==
    /\ CanStart(p)
    /\ started' = started + 1
    /\ proc' = Arrive(p,
         IF FindWalletByUser(userId) = NoWallet
         THEN Reply("deposit", "Wallet not found", "Error initializing deposit")
         ELSE [Idle EXCEPT !.op = "deposit", !.pc = "dep_gateway",
                           !.user = userId, !.amount = amount])
    /\ UNCHANGED <<balance, txs, transfers, gateway>>
    /\ UNCHANGED keyVars

initializeTransaction_answer_Swallowed(p) ==
    /\ proc[p].pc = "dep_gateway"
    /\ \E accepted \in BOOLEAN :
         IF accepted
         THEN /\ gateway' = gateway \cup
                    {[reference |-> NewGatewayRef,
                      amount |-> GatewayAmount(proc[p].amount)]}
              /\ proc' = [proc EXCEPT ![p].pc = "dep_create",
                                      ![p].ref = NewGatewayRef]
         ELSE /\ UNCHANGED gateway
              /\ proc' = [proc EXCEPT ![p].pc = "dep_create"]
    /\ UNCHANGED <<balance, txs, transfers, started>>
    /\ UNCHANGED keyVars

\* the gateway answers initializeTransaction: it registered the charge, or
\* the call failed
initializeTransaction_answer(p) ==
    /\ proc[p].pc = "dep_gateway"
    /\ \E accepted \in BOOLEAN :
         IF accepted
         THEN /\ gateway' = gateway \cup
                    {[reference |-> NewGatewayRef,
                      amount |-> GatewayAmount(proc[p].amount)]}
              /\ proc' = [proc EXCEPT ![p].pc = "dep_create",
                                      ![p].ref = NewGatewayRef]
         ELSE /\ UNCHANGED gateway
              /\ proc' = FinishBare(p, "Failed to initialize payment",
                                    "Error initializing deposit")
    /\ UNCHANGED <<balance, txs, transfers, started>>
    /\ UNCHANGED keyVars

\* The steps of the service are taken when they can be; nothing obliges
\* the gateway to answer a call.
GatewayNext ==
    \/ \E p \in Procs, u \in Users, a \in Amounts :
          initializeDeposit_call(p, u, a)
    \/ \E p \in Procs : initializeTransaction_answer(p)
    \/ \E p \in Procs : initializeDeposit_create(p)
    \/ \E p \in Procs, r \in StatusReferences : verifyDepositStatus(p, r)
    \/ \E p \in Procs : verifyDepositStatus_gateway(p)

GatewaySpec ==
    /\ Init
    /\ [][GatewayNext]_vars
    /\ WF_vars(\E p \in Procs : initializeDeposit_create(p))

(* ---------------------------- access gate: claims ---------------------- *)
\* the request presents an API key and no session token
ApiKeyOnly(c) == c.token = NoToken /\ c.apiKey # NoKey

\* the permission set recorded on the presented key contains perm
KeyGrants(c, perm) ==
    /\ FindApiKeyByKey(c.apiKey) # 0
    /\ perm \in apiKeys[FindApiKeyByKey(c.apiKey)].permissions

\* a request with credentials c arrives on slot p at an endpoint whose
\* handler requires perm
GatedRequest(p, c, perm) ==
    \/ /\ perm = "deposit"
       /\ \E a \in Amounts : Controller_initializeDeposit(p, c, a)
    \/ /\ perm = "transfer"
       /\ \E n \in WalletNumbers, a \in Amounts : Controller_transfer(p, c, n, a)
    \/ /\ perm = "read"
       /\ \/ Controller_getBalance(p, c)
          \/ Controller_getTransactions(p, c)
          \/ \E r \in StatusReferences : Controller_verifyDepositStatus(p, c, r)

\* the request on slot p was turned away by a guard or by the permission test
TurnedAway(r) == r.pc = "done" /\ r.log \in {"Unauthorized", "Forbidden"}

StoresUnchanged ==
    UNCHANGED <<balance, txs, transfers, gateway, apiKeys, now>>

PresentedKey(c) == apiKeys[FindApiKeyByKey(c.apiKey)]

\* the request on slot p' was refused as Forbidden for the given reason
ForbiddenFor(r, why) ==
    r.pc = "done" /\ r.log = "Forbidden" /\ r.result = why

LacksPermission(c, url, perm) ==
    /\ Authenticate(c, url).status = "ok"
    /\ perm \notin Authenticate(c, url).permissions

\* C23: a request that passed the guards of its endpoint with a permission
\* set that does not contain the permission its operation requires is
\* refused as Forbidden, not as Unauthenticated, and nothing changes.
C23_MissingPermissionForbidden ==
    [][\A p \in Procs, c \in GateCreds, perm \in AllPermissions :
         (LacksPermission(c, <<"wallet", "transfer">>, perm)
            /\ GatedRequest(p, c, perm))
         => /\ proc'[p].pc = "done"
            /\ proc'[p].log = "Forbidden"
            /\ StoresUnchanged
      ]_vars

\* the request presents a session token that verifies
ValidToken(c) == c.token \notin {NoToken, EmptyToken} /\ VerifyJwt(c.token)

\* C24: a request that carries a valid session token leaves the guards of
\* every wallet endpoint with the permission set {deposit, transfer, read},
\* whatever x-api-key it also carries, and is never turned away from a
\* wallet operation.
C24_TokenHasAllPermissions ==
    [][\A p \in Procs, c \in GateCreds, perm \in AllPermissions :
         (ValidToken(c) /\ GatedRequest(p, c, perm))
         => /\ \A url \in WalletUrls :
                 /\ Authenticate(c, url).status = "ok"
                 /\ Authenticate(c, url).permissions =
                       {"deposit", "transfer", "read"}
            /\ ~TurnedAway(proc'[p])
      ]_vars

\* u2, whose only API key is revoked, deposited, was credited and completed
\* a transfer: each of the three requests carried u2's session token.
C24_Witness ==
    /\ \A i \in 1..Len(apiKeys) :
          apiKeys[i].userId = "u2" => apiKeys[i].revokedAt # Null
    /\ \E p \in Procs :
          /\ proc[p].op = "transfer"
          /\ proc[p].user = "u2"
          /\ proc[p].pc = "done"
          /\ proc[p].result = "Transfer completed"

\* C25: the webhook endpoint has no guard: a notification is handed to the
\* service whatever Authorization and x-api-key headers it carries or
\* lacks, and it is refused exactly when its signature is not the HMAC of
\* its body under the gateway's secret.
C25_WebhookNotGated ==
    [][\A p \in Procs, c \in WebhookCreds, e \in WebhookEvents :
         \A s \in WebhookSignatures(e) :
            Controller_handlePaystackWebhook(p, c, e, s)
            => /\ handlePaystackWebhook(p, e, s)
               /\ ~TurnedAway(proc'[p])
               /\ (proc'[p].result = "Invalid webhook signature")
                     <=> (s # Hmac(SecretKey, Stringify(e)))
      ]_vars

\* A deposit was credited by a notification although no request presents a
\* credential that the guards of the other endpoints would accept at the
\* webhook endpoint's place.
C25_Witness ==
    /\ \A c \in WebhookCreds :
          Authenticate(c, <<"wallet", "deposit">>).status # "ok"
    /\ \E p \in Procs :
          /\ proc[p].op = "webhook"
          /\ proc[p].pc = "done"
          /\ proc[p].log = "Deposit successful"
          /\ balance[txs[FindTxByPaystackRef(proc[p].body.reference)].wallet] > 0

(* ---------------------------- deposit status: claims ------------------- *)
\* the request on slot p is waiting for the gateway's answer to
\* verifyTransaction
AtGateway(r) == r.pc = "vs_gateway"

\* C30: verifyDepositStatus on a reference that no Transaction carries
\* fails with 'Transaction not found' without contacting the gateway; on a
\* known reference it contacts the gateway exactly when the Transaction is
\* pending and has a gateway reference, and otherwise returns at once the
\* Transaction's reference, status and amount; the answer that follows the
\* gateway's is the reference, status and amount of the Transaction as
\* read.  Nothing is written.
C30_StatusLookup ==
    [][\A p \in Procs :
         /\ \A r \in StatusReferences :
               verifyDepositStatus(p, r)
               => LET i == FindTxByReference(r)
                  IN /\ i = 0 => /\ proc'[p].pc = "done"
                                 /\ proc'[p].result = "Transaction not found"
                     /\ i # 0 =>
                          /\ AtGateway(proc'[p])
                               <=> (txs[i].status = "pending"
                                      /\ txs[i].paystackRef # NoRef)
                          /\ ~AtGateway(proc'[p])
                               => /\ proc'[p].pc = "done"
                                  /\ proc'[p].result = "status"
                          /\ proc'[p].reference = r
                          /\ proc'[p].status = txs[i].status
                          /\ proc'[p].amount = txs[i].amount
                     /\ StoresUnchanged
         /\ (AtGateway(proc[p]) /\ proc'[p].pc = "done"
               /\ proc'[p].result = "status")
            => /\ proc'[p].reference = proc[p].reference
               /\ proc'[p].status = proc[p].status
               /\ proc'[p].amount = proc[p].amount
               /\ StoresUnchanged
      ]_vars

\* The status of a settled deposit was returned at once as success with the
\* deposit's amount, and the deposit's owner holds that amount.
C30_Witness ==
    \E p \in Procs :
       /\ proc[p].op = "status"
       /\ proc[p].pc = "done"
       /\ proc[p].result = "status"
       /\ proc[p].status = "success"
       /\ FindTxByReference(proc[p].reference) # 0
       /\ txs[FindTxByReference(proc[p].reference)].amount = proc[p].amount
       /\ txs[FindTxByReference(proc[p].reference)].paystackRef # NoRef

(* ---------------------------- /keys endpoints: claims ------------------ *)
\* a request with credentials c arrives on slot p at a /keys endpoint
KeysRequest(p, c) ==
    \/ \E b \in KeyBodies : Controller_createApiKey(p, c, b.permissions, b.expiry)
    \/ \E k \in KeyIdInputs : Controller_revokeApiKey(p, c, k)
    \/ \E k \in KeyIdInputs, e \in ExpiryInputs :
          Controller_rolloverApiKey(p, c, k, e)

\* C26: a /keys request without a session token that verifies is refused
\* before its handler runs, so it creates, revokes and rolls over nothing;
\* a request that presents only an API key is refused for the missing
\* token even when the key is active and has every permission.  A
\* credential changes only while a request admitted with a token is served.
C26_KeysNeedToken ==
    [][/\ \A p \in KeyProcs, c \in KeyCreds :
            (~ValidToken(c) /\ KeysRequest(p, c))
            => /\ kproc'[p].pc = "done"
               /\ ApiKeyOnly(c) => kproc'[p].result =
                     "Missing authentication: Bearer JWT required"
               /\ ~ApiKeyOnly(c) => kproc'[p].result =
                     "Invalid or expired JWT token"
               /\ apiKeys' = apiKeys
       /\ apiKeys' # apiKeys
            => \E p \in KeyProcs :
                  kproc[p].pc \in {"ck_create", "rv_update", "ro_create",
                                   "ro_update"}
      ]_vars

\* A /keys request that presented only u1's key was refused for the missing
\* token while that key was active and had every permission.
C26_Witness ==
    /\ ApiKeyGuard(generateApiKey(2)) = "ok"
    /\ apiKeys[2].permissions = AllPermissions
    /\ \E p \in KeyProcs :
          /\ kproc[p].pc = "done"
          /\ kproc[p].op = "rollover"
          /\ kproc[p].result = "Missing authentication: Bearer JWT required"

(* ---------------------------- gateway calls: claims -------------------- *)
\* the request is waiting for the gateway's answer
AwaitsGateway(r) == r.pc \in {"dep_gateway", "vs_gateway"}

\* C27: every request that called the gateway, from initializeDeposit or
\* from verifyDepositStatus on a pending deposit, eventually returns, even
\* when the gateway never answers.
C27_GatewayCallReturns ==
    \A p \in Procs : AwaitsGateway(proc[p]) ~> (proc[p].pc = "done")

(* ---------------------------- revoke again: claims --------------------- *)
\* C31: a revoke of an already revoked credential by its owner is not
\* rejected, and no step changes the revocation timestamp a credential
\* already carries.
C31_SecondRevokeKeepsTimestamp ==
    [][/\ \A p \in KeyProcs, u \in KeyUsers :
            \A k \in 1..Len(apiKeys) :
               (/\ revokeApiKey(p, u, k)
                /\ apiKeys[k].userId = u
                /\ apiKeys[k].revokedAt # Null)
               => kproc'[p].pc = "rv_update"
       /\ \A i \in 1..Len(apiKeys) :
            apiKeys[i].revokedAt # Null
               => apiKeys'[i].revokedAt = apiKeys[i].revokedAt
      ]_vars

\* the step is one of a deposit-status request on slot p: its arrival or
\* the gateway's answer to it
StatusStep(p) ==
    \/ Arrives(p) /\ proc'[p].op = "status"
    \/ AtGateway(proc[p]) /\ proc'[p] # proc[p]

\* C32: no step of a deposit-status request, whatever the gateway reports
\* for the charge, changes a Transaction, a balance or a Transfer; a pending
\* Transaction leaves pending only in the settlement step of a webhook
\* notification for it.
C32_StatusReadOnly ==
    [][/\ \A p \in Procs :
            StatusStep(p) => UNCHANGED <<balance, txs, transfers>>
       /\ \A i \in 1..Len(txs) :
            (txs[i].status = "pending" /\ txs'[i].status # "pending")
            => \E p \in Procs :
                  /\ proc[p].op = "webhook"
                  /\ proc[p].pc = "wh_tx"
                  /\ proc[p].txi = i
      ]_vars

\* The gateway was asked about a pending deposit and answered; the caller
\* was told pending, and the deposit is still pending with nothing credited
\* to its wallet although the gateway holds the charge.
C32_Witness ==
    \E p \in Procs :
       /\ proc[p].op = "status"
       /\ proc[p].pc = "done"
       /\ proc[p].result = "status"
       /\ proc[p].status = "pending"
       /\ LET i == FindTxByReference(proc[p].reference)
          IN /\ i # 0
             /\ txs[i].status = "pending"
             /\ balance[txs[i].wallet] = 0
             /\ \E g \in gateway : g.reference = txs[i].paystackRef

(* ---------------------------- confirmed payments: claims --------------- *)
\* the request is a notification that was acknowledged to the gateway: a
\* validly signed charge.success for a reference the gateway issued
AcknowledgedCharge(r) ==
    /\ r.op = "webhook"
    /\ r.pc = "done"
    /\ r.result = "ack"
    /\ r.body.event = "charge.success"
    /\ r.signature = Hmac(SecretKey, Stringify(r.body))
    /\ \E g \in gateway : g.reference = r.body.reference

\* C33: no confirmed payment is lost: once a validly signed charge.success
\* notification for a reference the gateway issued has been acknowledged,
\* the deposit of that reference is stored as success, also when the
\* notification came before the pending Transaction was stored or when
\* storing it failed.
C33_ConfirmedPaymentCredited ==
    \A p \in Procs :
       AcknowledgedCharge(proc[p])
       => \E i \in 1..Len(txs) :
             /\ txs[i].paystackRef = proc[p].body.reference
             /\ txs[i].status = "success"

(* ---------------------------- failed initialisation: claims ------------ *)
\* C34: when the gateway does not register the charge of a deposit (the
\* call fails or is rejected), the deposit request ends there with the
\* initialisation failure and no Transaction, balance or Transfer changes;
\* a Transaction is stored only by a deposit request that holds a reference
\* the gateway issued.
C34_FailedInitPersistsNothing ==
    [][/\ \A p \in Procs :
            (/\ proc[p].pc = "dep_gateway"
             /\ proc'[p].pc # "dep_gateway"
             /\ gateway' = gateway)
            => /\ proc'[p].pc = "done"
               /\ proc'[p].result = "Failed to initialize payment"
               /\ UNCHANGED <<balance, txs, transfers>>
       /\ Len(txs') > Len(txs)
            => \E p \in Procs :
                  /\ proc[p].pc = "dep_create"
                  /\ \E g \in gateway : g.reference = proc[p].ref
      ]_vars

\* A deposit ended with the initialisation failure: the gateway holds no
\* charge, no Transaction is stored and every balance is 0.
C34_Witness ==
    /\ \E p \in Procs :
          /\ proc[p].op = "deposit"
          /\ proc[p].pc = "done"
          /\ proc[p].result = "Failed to initialize payment"
    /\ gateway = {}
    /\ txs = <<>>
    /\ \A u \in WalletOwners : balance[u] = 0

(* ---------------------------- rollover links: claims ------------------- *)
\* no rollover stands between its two writes
NoRolloverMidway == \A p \in KeyProcs : kproc[p].pc # "ro_update"

\* C35: whenever no rollover stands between its two writes, a credential
\* carries the rolled-over marker if and only if the back-reference of some
\* credential points to it, and every back-reference points to a
\* credential of the same identity whose expiry has passed.
C35_MarkerIffBackReference ==
    NoRolloverMidway
    => /\ \A i \in 1..Len(apiKeys) :
             (apiKeys[i].rolledOverAt # Null)
                <=> (\E j \in 1..Len(apiKeys) : apiKeys[j].rolledOverFrom = i)
       /\ \A j \in 1..Len(apiKeys) :
             apiKeys[j].rolledOverFrom # Null
             => /\ apiKeys[apiKeys[j].rolledOverFrom].userId = apiKeys[j].userId
                /\ apiKeys[apiKeys[j].rolledOverFrom].expiresAt < now

(* ---------------------------- token and key: claims -------------------- *)
\* the request presents a session token and an API key
BothPresented(c) == c.token # NoToken /\ c.apiKey # NoKey

\* the credentials of c without its API key
TokenAlone(c) == [c EXCEPT !.apiKey = NoKey]

\* C36: a wallet request that presents a session token and an API key is
\* served exactly as the same request without the API key: with a valid
\* token it runs with the full permission set for the token's identity,
\* whether the key is unknown, revoked, expired or restricted, and with a
\* token that does not verify it is refused as Unauthorized and nothing
\* changes, even when the key is active and sufficient.
C36_TokenAloneDecides ==
    [][\A p \in Procs, c \in GateCreds, perm \in AllPermissions :
         (BothPresented(c) /\ Arrives(p) /\ GatedRequest(p, c, perm))
         => /\ GatedRequest(p, TokenAlone(c), perm)
            /\ ValidToken(c)
                 => /\ ~TurnedAway(proc'[p])
                    /\ \A url \in WalletUrls :
                         /\ Authenticate(c, url).user = c.token[2]
                         /\ Authenticate(c, url).permissions = AllPermissions
            /\ ~ValidToken(c)
                 => /\ TurnedAway(proc'[p])
                    /\ proc'[p].log = "Unauthorized"
                    /\ StoresUnchanged
      ]_vars

\* A transfer that presented a token that does not verify beside u1's
\* active key with every permission was refused for the token while u1 held
\* funds.
C36_Witness ==
    /\ ApiKeyGuard(generateApiKey(2)) = "ok"
    /\ "transfer" \in apiKeys[2].permissions
    /\ balance[apiKeys[2].userId] > 0
    /\ \E p \in Procs :
          /\ proc[p].op = "transfer"
          /\ proc[p].pc = "done"
          /\ proc[p].log = "Unauthorized"
          /\ proc[p].result = "Invalid or expired JWT token"

(* ---------------------------- key owner: claims ------------------------ *)
\* the identity the presented key is bound to
KeyOwner(c) ==
    CHOOSE u \in KeyUsers :
       \E i \in 1..Len(apiKeys) :
          apiKeys[i].key = c.apiKey /\ apiKeys[i].userId = u

\* the wallet requests that act on the wallet of an identity
WalletRequest(p, c) ==
    \/ Controller_getBalance(p, c)
    \/ Controller_getTransactions(p, c)
    \/ \E a \in Amounts : Controller_initializeDeposit(p, c, a)
    \/ \E n \in WalletNumbers, a \in Amounts : Controller_transfer(p, c, n, a)

GateAccepts(i) == ApiKeyGuard(apiKeys[i].key) = "ok"

\* C38: at every instant the tests of whether a non-revoked credential is
\* active agree: the Access Gate accepts it if and only if rollover refuses
\* it as still active, if and only if list reports it as active, and the
\* number of keys create counts against the limit of an identity is the
\* number of that identity's keys the gate accepts.
C38_ActivityTestsAgree ==
    /\ \A i \in 1..Len(apiKeys) :
          apiKeys[i].revokedAt = Null
          => /\ GateAccepts(i)
                  <=> (RolloverCheck(apiKeys[i]) =
                         "API key is still active. Only expired keys can be rolled over")
             /\ GateAccepts(i)
                  <=> (\E l \in listApiKeys(apiKeys[i].userId) :
                          l.id = i /\ l.is_active)
    /\ \A u \in KeyUsers :
          CountActiveKeys(u) =
             Cardinality({i \in 1..Len(apiKeys) :
                            apiKeys[i].userId = u /\ GateAccepts(i)})

(* ---------------------------- status disclosure: claims ---------------- *)
\* the answer carries, or is about to carry, the status and amount of a
\* Transaction
Discloses(r) ==
    r.op = "status" /\ (r.pc = "vs_gateway" \/ r.result = "status")

\* C39: a deposit-status request obtains the status and amount of a
\* Transaction only if the Transaction belongs to the wallet of the
\* identity the request was admitted for.
C39_StatusOnlyToOwner ==
    [][\A p \in Procs, c \in GateCreds, r \in StatusReferences :
         (/\ Arrives(p)
          /\ Controller_verifyDepositStatus(p, c, r)
          /\ Discloses(proc'[p]))
         => /\ FindTxByReference(r) # 0
            /\ txs[FindTxByReference(r)].wallet =
                  Authenticate(c, <<"wallet", "deposit/status">>).user
      ]_vars

====
